---- MODULE Spec2Model ----
(***************************************************************************)
(* Support-ticket automation: event intake, pre-filter, duplicate          *)
(* detection, idempotent ticket creation and notification dispatch.        *)
(*                                                                         *)
(* Strings are modelled as sequences of atoms (words and punctuation       *)
(* marks).  `x in s` (substring) is "x is a contiguous sub-sequence of s", *)
(* s.lower() maps every atom to its lower-case form.                       *)
(***************************************************************************)
EXTENDS Integers, Sequences, FiniteSets, TLC

\* ------------------------------------------------------------------ bounds
MaxSpace  == 2   \* messages the chat space holds
MaxRuns   == 2   \* pipeline runs started in one behaviour
MaxFaults == 2   \* injected stage exceptions / failed store calls

\* ----------------------------------------------------------------- strings
Lower(a) ==
  CASE a = "Support"    -> "support"
    [] a = "Ticket"     -> "ticket"
    [] a = "Automation" -> "automation"
    [] a = "Created"    -> "created"
    [] a = "Number"     -> "number"
    [] a = "Status"     -> "status"
    [] a = "Priority"   -> "priority"
    [] a = "View"       -> "view"
    [] a = "Open"       -> "open"
    [] a = "ServiceNow" -> "servicenow"
    [] a = "Your"       -> "your"
    [] a = "INC0010078" -> "inc0010078"
    [] a = "Alice"      -> "alice"
    [] a = "Helper"     -> "helper"
    [] a = "I"          -> "i"
    [] a = "WiFi"       -> "wifi"
    [] OTHER            -> a

LowerStr(s) == [k \in 1..Len(s) |-> Lower(s[k])]

\* literal pattern: every position accepts exactly one atom
Lit(s) == [k \in 1..Len(s) |-> {s[k]}]

\* pat (a sequence of atom sets) occurs in s as a contiguous sub-sequence
Occurs(pat, s) ==
  \E i \in 1..(Len(s) - Len(pat) + 1) :
     \A j \in 1..Len(pat) : s[i + j - 1] \in pat[j]

\* Python `x in s` for strings
In(x, s) == Occurs(Lit(x), s)

\* atoms that start with "inc" (lower case) / that are a run of digits
IncPrefixed == {"inc", "inc0010078"}
IncNumber   == {"inc0010078"}
Digits      == {"1", "5"}

\* ------------------------------------------------------------------ texts
Mention == <<"Support", "Ticket", "Automation">>

TxtRequest == <<"@", "Support", "Ticket", "Automation", "printer", "broken">>

\* the confirmation the notify stage posts (nodes_optimized.py 480-491)
TxtNotification ==
  <<"[ticket]", "**", "Support", "Ticket", "Created", "**",
    "**", "Ticket", "Number", ":", "**", "INC0010078",
    "**", "Status", ":", "**", "1",
    "Your", "request", "has", "been", "processed", "and", "a",
    "ticket", "has", "been", "created", ".">>

\* a user who addresses the system and quotes the banner
TxtQuotedBanner ==
  <<"@", "Support", "Ticket", "Automation",
    "[ticket]", "**", "Support", "Ticket", "Created", "**">>

\* the acknowledgement the webhook handler posts (webhook.py 105-109)
TxtAck ==
  <<"[robot]", "**", "Support", "Ticket", "Automation", "**", "is",
    "processing", "your", "request", "...", "I", "'m", "analyzing", "your",
    "message", "and", "will", "create", "a", "ticket", "shortly", ".">>

TxtChatter == <<"lunch", "anyone", "?">>

\* a scenario of get_test_scenarios (tests/test_utils.py 39)
TxtWifi == <<"WiFi", "keeps", "disconnecting", "every", "few", "minutes">>

Texts == {TxtRequest, TxtNotification, TxtQuotedBanner, TxtAck, TxtChatter, TxtWifi}

\* --------------------------------------------------- messages in the chat
\* A message as the chat platform holds it: thread is the thread resource
\* name split at '/', <<>> when the message has no thread.
UserAlice == [user_id |-> <<"101">>, user_name |-> <<"Alice">>]
UserBotByName ==
  [user_id |-> <<"202">>, user_name |-> <<"Support", "Ticket", "Automation">>]
UserBotById == [user_id |-> <<"chat-", "bot", "-7">>, user_name |-> <<"Helper">>]

ThreadA == <<"spaces", "S", "threads", "tA">>
ThreadB == <<"spaces", "S", "threads", "tB.mB">>

ChatMsg(id, thread, user, text) ==
  [message_id |-> id, thread |-> thread, user_id |-> user.user_id,
   user_name |-> user.user_name, content |-> text]

\* the chat history the runs can meet, oldest first
Catalogue ==
  << ChatMsg("m1", ThreadA, UserAlice,     TxtRequest),
     ChatMsg("m2", <<>>,    UserAlice,     TxtRequest),
     ChatMsg("m3", ThreadA, UserBotByName, TxtNotification),
     ChatMsg("m4", ThreadB, UserBotById,   TxtRequest),
     ChatMsg("m5", ThreadB, UserAlice,     TxtQuotedBanner),
     ChatMsg("m6", <<>>,    UserAlice,     TxtWifi) >>

MessageIds == {Catalogue[k].message_id : k \in 1..Len(Catalogue)}

\* SupportMessage built by get_space_messages: the full thread name is kept
FromPoll(m) ==
  [message_id |-> m.message_id, thread_id |-> m.thread, user_id |-> m.user_id,
   user_name |-> m.user_name, content |-> m.content]

\* SupportMessage built by the webhook handler: name.split('/')[-1]
FromWebhook(m) ==
  [message_id |-> m.message_id,
   thread_id |-> IF m.thread = <<>> THEN <<>> ELSE <<m.thread[Len(m.thread)]>>,
   user_id |-> m.user_id, user_name |-> m.user_name, content |-> m.content]

\* A run holds its SupportMessages as references <<k, via>>: message k of the
\* catalogue as converted by the poll path or by the webhook path.
M(ref) == IF ref[2] = "poll" THEN FromPoll(Catalogue[ref[1]])
          ELSE FromWebhook(Catalogue[ref[1]])

\* ------------------------------------------------------------- pre-filter
admin_patterns ==
  { Lit(<<"[ticket]", "**", "support", "ticket", "created", "**">>),
    Lit(<<"ticket", "number", ":">>) \o <<IncPrefixed>>,
    Lit(<<"your", "request", "has", "been", "processed">>),
    Lit(<<"ticket", "has", "been", "created">>),
    Lit(<<"view", "ticket", ":", "[", "open", "in", "servicenow", "]">>),
    Lit(<<"status", ":">>),
    Lit(<<"priority", ":">>),
    Lit(<<"you", "will", "receive", "updates", "as", "the", "issue", "progresses">>) }

is_admin_notification(content) ==
  \E pat \in admin_patterns : Occurs(pat, LowerStr(content))

BotNames == { <<"support", "ticket", "automation">>, <<"bot">>, <<"admin">> }

is_bot_message(message) ==
  \/ LowerStr(message.user_name) \in BotNames
  \/ In(<<"chat-", "bot">>, LowerStr(message.user_id))
  \/ In(<<"bot">>, LowerStr(message.user_id))

\* a filter that drops only what both rules reject
PreFilterDrops_both(message) ==
  is_admin_notification(message.content) /\ is_bot_message(message)

PreFilterDrops(message) ==
  is_admin_notification(message.content) \/ is_bot_message(message)

\* the filtering loop of message_fetcher_node: kept messages, in fetch order
RECURSIVE PreFilter(_)
PreFilter(messages) ==
  IF messages = <<>> THEN <<>>
  ELSE IF PreFilterDrops(M(Head(messages))) THEN PreFilter(Tail(messages))
       ELSE <<Head(messages)>> \o PreFilter(Tail(messages))

\* --------------------------------------------------------- classification
SUPPORT_KEYWORDS ==
  { <<"help">>, <<"support">>, <<"issue">>, <<"problem">>, <<"broken">>,
    <<"not", "working">>, <<"error">>, <<"fix">>, <<"assist">>, <<"trouble">>,
    <<"down">>, <<"crash">>, <<"fail">>, <<"cannot">>, <<"can't">>,
    <<"password">>, <<"login">>, <<"access">>, <<"email">>, <<"printer">>,
    <<"network">>, <<"internet">>, <<"software">>, <<"hardware">>,
    <<"computer">>, <<"laptop">>, <<"desktop">>, <<"server">> }

bot_mentioned(content) == In(Mention, content)

\* keywords that occur inside a longer atom of the vocabulary
Subs(a) ==
  {a} \cup (CASE a = "printer" -> {"print"}
             [] a = "email"   -> {"mail"}
             [] OTHER         -> {})

\* `keyword in text` for a keyword of the keyword tables
Contains(kw, lowered) ==
  IF Len(kw) = 1 THEN \E k \in 1..Len(lowered) : kw[1] \in Subs(lowered[k])
  ELSE In(kw, lowered)

support_score(content) ==
  Cardinality({kw \in SUPPORT_KEYWORDS : Contains(kw, LowerStr(content))})

\* confidence is kept in thirds: min(score / 3.0, 1.0) = Min(score, 3) / 3
rule_based_classification(message) ==
  IF is_admin_notification(message.content)
  THEN [is_support_request |-> FALSE, reasoning |-> "admin notification"]
  ELSE IF ~ bot_mentioned(message.content)
  THEN [is_support_request |-> FALSE, reasoning |-> "bot not mentioned"]
  ELSE [is_support_request |-> support_score(message.content) >= 1,
        reasoning |-> "bot mentioned"]

\* ------------------------------------------------------ duplicate detector
duplicate_patterns ==
  { Lit(<<"[ticket]", "**", "support", "ticket", "created", "**">>),
    Lit(<<"ticket", "number", ":">>) \o <<IncNumber>>,
    Lit(<<"your", "request", "has", "been", "processed">>),
    Lit(<<"ticket", "has", "been", "created">>),
    Lit(<<"view", "ticket", ":", "[", "open", "in", "servicenow", "]">>),
    Lit(<<"status", ":">>) \o <<Digits>>,
    Lit(<<"priority", ":">>) \o <<Digits>> }

confirmation_phrases ==
  { <<"support", "ticket", "created">>, <<"ticket", "number", ":">>,
    <<"your", "request", "has", "been", "processed">>,
    <<"ticket", "has", "been", "created">>, <<"view", "ticket", ":">>,
    <<"open", "in", "servicenow">> }

\* re.search(pattern, content, re.IGNORECASE), then the phrase list
is_obvious_duplicate(content) ==
  \/ \E pat \in duplicate_patterns : Occurs(pat, LowerStr(content))
  \/ \E ph \in confirmation_phrases : In(ph, LowerStr(content))

Words(text) == {text[k] : k \in 1..Len(text)}
Max(a, b) == IF a >= b THEN a ELSE b

\* a lexical rule whose threshold is inclusive (similarity >= 0.3)
rule_based_duplicate_detection_inclusive(content, recent_tickets) ==
  IF recent_tickets = <<>>
  THEN [is_duplicate |-> FALSE, confidence |-> 80, rule |-> "lexical",
        similar_tickets |-> <<>>]
  ELSE
    LET hits == {k \in 1..Len(recent_tickets) :
                   LET d == LowerStr(recent_tickets[k].description)
                       common == Cardinality(Words(LowerStr(content)) \cap Words(d))
                   IN d # <<>> /\ common >= 3 /\
                      10 * common >= 3 * Max(Len(content), Len(d))}
    IN IF hits = {}
       THEN [is_duplicate |-> FALSE, confidence |-> 80, rule |-> "lexical",
             similar_tickets |-> <<>>]
       ELSE LET k == CHOOSE k \in hits : \A j \in hits : k <= j
                d == LowerStr(recent_tickets[k].description)
            IN [is_duplicate |-> TRUE,
                confidence |-> (100 * Cardinality(Words(LowerStr(content)) \cap Words(d)))
                                 \div Max(Len(content), Len(d)),
                rule |-> "lexical", similar_tickets |-> <<recent_tickets[k].number>>]

\* _rule_based_duplicate_detection: the first ticket with at least 3 common
\* words and similarity common / max(len, len) > 0.3; confidences are kept
\* in hundredths
RECURSIVE rule_based_duplicate_detection(_, _)
rule_based_duplicate_detection(content, recent_tickets) ==
  IF recent_tickets = <<>>
  THEN [is_duplicate |-> FALSE, confidence |-> 80, rule |-> "lexical",
        similar_tickets |-> <<>>]
  ELSE
    LET ticket == Head(recent_tickets)
        content_lower == LowerStr(content)
        ticket_lower == LowerStr(ticket.description)
        common == Cardinality(Words(content_lower) \cap Words(ticket_lower))
        longest == Max(Len(content_lower), Len(ticket_lower))
    IN IF ticket.description # <<>> /\ common >= 3 /\ 10 * common > 3 * longest
       THEN [is_duplicate |-> TRUE, confidence |-> (100 * common) \div longest,
             rule |-> "lexical", similar_tickets |-> <<ticket.number>>]
       ELSE rule_based_duplicate_detection(content, Tail(recent_tickets))

\* What the collaborators answer during one detect_duplicates call:
\*   recent   - get_recent_incidents() (already [] when the query failed)
\*   existing - find_incident_by_correlation(message_id), 0 for None
\*   llm      - "absent" (self.llm is None), the Oracle's verdict, an answer
\*              the parser cannot read, or an exception of the call
LlmAnswers == {"absent", "duplicate", "unique", "unparsable", "raises"}

\* a detector that puts the semantic question before the correlation query
detect_duplicates_oracle_first(message, recent_tickets, env) ==
  IF is_obvious_duplicate(message.content)
  THEN [is_duplicate |-> TRUE, confidence |-> 95, rule |-> "fingerprint",
        similar_tickets |-> <<>>, calls |-> <<>>]
  ELSE IF env.llm \in {"duplicate", "unique"}
  THEN [is_duplicate |-> env.llm = "duplicate",
        confidence |-> IF env.llm = "duplicate" THEN 90 ELSE 10,
        rule |-> "semantic", similar_tickets |-> <<>>, calls |-> <<"oracle">>]
  ELSE IF env.existing # 0
  THEN [is_duplicate |-> TRUE, confidence |-> 100, rule |-> "correlation",
        similar_tickets |-> <<env.existing>>,
        calls |-> <<"oracle", "correlation_query">>]
  ELSE rule_based_duplicate_detection(message.content, recent_tickets.tickets)
         @@ [calls |-> <<"oracle", "correlation_query", "lexical">>]

\* a detector that asks the store for the correlation id before rule 1
detect_duplicates_store_first(message, recent_tickets, env) ==
  IF env.existing # 0
  THEN [is_duplicate |-> TRUE, confidence |-> 100, rule |-> "correlation",
        similar_tickets |-> <<env.existing>>, calls |-> <<"correlation_query">>]
  ELSE IF is_obvious_duplicate(message.content)
  THEN [is_duplicate |-> TRUE, confidence |-> 95, rule |-> "fingerprint",
        similar_tickets |-> <<>>, calls |-> <<"correlation_query">>]
  ELSE rule_based_duplicate_detection(message.content, recent_tickets.tickets)
         @@ [calls |-> <<"correlation_query", "lexical">>]

\* DuplicateDetectionAgent.detect_duplicates; recent_tickets.none holds when the
\* caller passes no list.  calls lists the collaborators consulted, in order.
detect_duplicates(message, recent_tickets, env) ==
  IF is_obvious_duplicate(message.content)
  THEN [is_duplicate |-> TRUE, confidence |-> 95, rule |-> "fingerprint",
        similar_tickets |-> <<>>, calls |-> <<>>]
  ELSE
    LET c1 == IF recent_tickets.none THEN <<"recent_query">> ELSE <<>>
        recent == IF recent_tickets.none THEN env.recent ELSE recent_tickets.tickets
        c2 == c1 \o <<"correlation_query">>
        lexical == rule_based_duplicate_detection(message.content, recent)
    IN IF env.existing # 0
       THEN [is_duplicate |-> TRUE, confidence |-> 100, rule |-> "correlation",
             similar_tickets |-> <<env.existing>>, calls |-> c2]
       ELSE IF env.llm # "absent" /\ recent # <<>>
       THEN CASE env.llm = "duplicate" ->
                   [is_duplicate |-> TRUE, confidence |-> 90, rule |-> "semantic",
                    similar_tickets |-> <<>>, calls |-> c2 \o <<"oracle">>]
              [] env.llm = "unique" ->
                   [is_duplicate |-> FALSE, confidence |-> 10, rule |-> "semantic",
                    similar_tickets |-> <<>>, calls |-> c2 \o <<"oracle">>]
              \* DuplicateDetectionParser.parse swallows the error itself
              [] env.llm = "unparsable" ->
                   [is_duplicate |-> FALSE, confidence |-> 0, rule |-> "parse_error",
                    similar_tickets |-> <<>>, calls |-> c2 \o <<"oracle">>]
              [] env.llm = "raises" ->
                   lexical @@ [calls |-> c2 \o <<"oracle", "lexical">>]
       ELSE lexical @@ [calls |-> c2 \o <<"lexical">>]

\* ---------------------------------------------------------- categorization
Categories == <<"hardware", "software", "network", "access", "email",
                "printing", "security">>

CATEGORY_KEYWORDS(c) ==
  CASE c = "hardware" -> {"hardware", "computer", "laptop", "desktop", "printer",
                          "scanner", "keyboard", "mouse", "monitor", "screen"}
    [] c = "software" -> {"software", "application", "program", "app", "system",
                          "update", "install", "uninstall"}
    [] c = "network"  -> {"network", "internet", "wifi", "ethernet", "connection",
                          "vpn", "firewall"}
    [] c = "access"   -> {"access", "login", "password", "authentication",
                          "permission", "account", "user"}
    [] c = "email"    -> {"email", "outlook", "gmail", "mail", "inbox", "spam"}
    [] c = "printing" -> {"printer", "print", "scan", "copier", "fax"}
    [] c = "security" -> {"security", "virus", "malware", "firewall",
                          "encryption", "breach"}

category_score(c, text) ==
  Cardinality({kw \in CATEGORY_KEYWORDS(c) : Contains(<<kw>>, text)})

\* max(category_scores.items(), key=score)[0]: the first category, in table
\* order, that has the highest positive score; OTHER when nothing scores
BestCategory(text) ==
  IF \A k \in 1..Len(Categories) : category_score(Categories[k], text) = 0
  THEN "other"
  ELSE Categories[CHOOSE k \in 1..Len(Categories) :
         /\ \A j \in 1..Len(Categories) :
              category_score(Categories[j], text) <= category_score(Categories[k], text)
         /\ \A j \in 1..(k - 1) :
              category_score(Categories[j], text) < category_score(Categories[k], text)]

assignment_group_map(c) ==
  CASE c = "hardware" -> "IT Hardware Support"
    [] c = "software" -> "IT Software Support"
    [] c = "network"  -> "IT Network Support"
    [] c = "access"   -> "IT Access Management"
    [] c = "email"    -> "IT Email Support"
    [] c = "printing" -> "IT Hardware Support"
    [] c = "security" -> "IT Security Team"
    [] c = "other"    -> "IT General Support"

rule_based_categorization(message, summary) ==
  LET combined_text == LowerStr(message.content) \o LowerStr(summary.description)
      category == BestCategory(combined_text)
  IN [category |-> category, assignment_group |-> assignment_group_map(category)]

\* title: the text before the first '.', description: the whole text
\* (the 100/500 character truncations do not arise for the modelled texts)
RECURSIVE FirstSentence(_)
FirstSentence(content) ==
  IF content = <<>> \/ Head(content) = "." THEN <<>>
  ELSE <<Head(content)>> \o FirstSentence(Tail(content))

create_simple_summary(message) ==
  [title |-> FirstSentence(message.content), description |-> message.content]

\* ------------------------------------------------------------------ state
VARIABLES
  space,     \* the chat space: catalogue indices of its messages, oldest first
  store,     \* Ticket Store: incidents in creation order, number = index
  run,       \* one WorkflowState (plus the node's locals) per run slot
  started,   \* triggers delivered so far (scheduler ticks + webhook events)
  faults,    \* injected failures so far
  lost,      \* message ids for which a create call has failed
  disp,      \* one send_message_with_fallback call: inputs and attempt log
  det        \* one detect_duplicates call: inputs and result

vars == <<space, store, run, started, faults, lost, disp, det>>

\* the scheduler thread runs its job synchronously, so scheduled runs never
\* overlap each other; a webhook run is a task on the server's event loop
Slots == {"poll", "webhook"}

Nodes == <<"scheduler", "message_fetcher", "classifier", "summary",
           "category_extractor", "servicenow", "notification", "tracker">>

\* a graph whose edge out of summary leads straight to servicenow
NextNode_skips_category(n) ==
  CASE n = "scheduler"          -> "message_fetcher"
    [] n = "message_fetcher"    -> "classifier"
    [] n = "classifier"         -> "summary"
    [] n = "summary"            -> "servicenow"
    [] n = "category_extractor" -> "servicenow"
    [] n = "servicenow"         -> "notification"
    [] n = "notification"       -> "tracker"
    [] n = "tracker"            -> "END"

\* workflow.add_edge(...): the successor of every node, END after tracker
NextNode(n) ==
  CASE n = "scheduler"          -> "message_fetcher"
    [] n = "message_fetcher"    -> "classifier"
    [] n = "classifier"         -> "summary"
    [] n = "summary"            -> "category_extractor"
    [] n = "category_extractor" -> "servicenow"
    [] n = "servicenow"         -> "notification"
    [] n = "notification"       -> "tracker"
    [] n = "tracker"            -> "END"

\* WorkflowState as run_workflow builds it, before the entry node
InitialState(no, kind, initial_messages, base) ==
  [no |-> no, kind |-> kind, pc |-> "scheduler", base |-> base,
   messages |-> initial_messages, supplied |-> initial_messages,
   classified_messages |-> <<>>, summarized_tickets |-> <<>>,
   categorized_tickets |-> <<>>, servicenow_tickets |-> <<>>,
   newly_created_tickets |-> <<>>, notifications_sent |-> <<>>,
   errors |-> <<>>, processed_messages |-> {}, ticket_links |-> {},
   \* locals of servicenow_node
   i |-> 1, created_tickets |-> <<>>, newly |-> <<>>,
   \* history of this run
   threw |-> <<>>, visited |-> <<>>, seen |-> {}, creates |-> <<>>,
   store_calls |-> <<>>,
   create_failed |-> {}, dispatched |-> <<>>, escaped |-> FALSE]

IdleState == [InitialState(0, "none", <<>>, 0) EXCEPT !.pc = "idle"]

NoDispatch == [phase |-> "off"]
NoDetect   == [phase |-> "off"]

\* the sub-sequences of q that start at position k and have at most n elements
RECURSIVE SubSeqs(_, _, _)
SubSeqs(q, k, n) ==
  IF k > Len(q) \/ n = 0 THEN {<<>>}
  ELSE SubSeqs(q, k + 1, n) \cup {<<q[k]>> \o t : t \in SubSeqs(q, k + 1, n - 1)}

Init ==
  /\ space \in SubSeqs([k \in 1..Len(Catalogue) |-> k], 1, MaxSpace)
  /\ store = <<>>
  /\ run = [s \in Slots |-> IdleState]
  /\ started = 0
  /\ faults = 0
  /\ lost = {}
  /\ disp = NoDispatch
  /\ det = NoDetect

\* a stage without its handler: the exception leaves the graph and run_workflow
StageError_reraise(r, label) ==
  [r EXCEPT !.threw = Append(@, r.pc), !.visited = Append(@, r.pc),
            !.escaped = TRUE, !.pc = "END"]

\* a stage's `except Exception as e` handler: one entry in errors[], then the
\* node returns the state and the graph moves on
StageError(r, label) ==
  [r EXCEPT !.errors = Append(@, label), !.threw = Append(@, r.pc),
            !.visited = Append(@, r.pc), !.pc = NextNode(r.pc)]

StageDone(r) == [r EXCEPT !.visited = Append(@, r.pc), !.pc = NextNode(r.pc)]

MayFail == faults < MaxFaults
Fail    == faults' = faults + 1

\* ------------------------------------------------------------ Ticket Store
\* a lookup that matches on a field no incident carries
FindByCorrelation_unmatched(cid) == 0

\* find_incident_by_correlation: sysparm_limit 1, the first matching incident
\* (its number), 0 for None
FindByCorrelation(cid) ==
  IF \E n \in 1..Len(store) : store[n].correlation_id = cid
  THEN CHOOSE n \in 1..Len(store) :
         /\ store[n].correlation_id = cid
         /\ \A k \in 1..(n - 1) : store[k].correlation_id # cid
  ELSE 0

TicketsFor(cid) == {n \in 1..Len(store) : store[n].correlation_id = cid}

\* ---------------------------------------------------- notification dispatch
ModeOutcomes == {"ok", "http_error", "exception"}

DispatchEnvs ==
  [auth : BOOLEAN, thread : ModeOutcomes, quote : ModeOutcomes,
   space : ModeOutcomes]

\* a dispatcher that goes through every mode whatever the earlier ones returned
send_message_with_fallback_every_mode(thread_id, original_message_id, env) ==
  IF ~ env.auth THEN [result |-> FALSE, attempts |-> <<>>]
  ELSE
    LET a1 == IF thread_id # <<>> THEN <<"thread">> ELSE <<>>
        ok1 == thread_id # <<>> /\ env.thread = "ok"
        a2 == IF original_message_id # "" THEN <<"quote">> ELSE <<>>
        ok2 == original_message_id # "" /\ env.quote = "ok"
    IN  [result |-> ok1 \/ ok2 \/ env.space = "ok",
         attempts |-> a1 \o a2 \o <<"space">>]

\* a dispatcher whose modes let a transport exception propagate to the caller
send_message_with_fallback_propagates(thread_id, original_message_id, env) ==
  IF ~ env.auth THEN [result |-> FALSE, attempts |-> <<>>]
  ELSE
    LET a1 == IF thread_id # <<>> THEN <<"thread">> ELSE <<>>
        a2 == IF original_message_id # "" THEN <<"quote">> ELSE <<>>
    IN  IF thread_id # <<>> /\ env.thread = "ok"
        THEN [result |-> TRUE, attempts |-> a1]
        ELSE IF thread_id # <<>> /\ env.thread = "exception"
        THEN [result |-> FALSE, attempts |-> a1]
        ELSE IF original_message_id # "" /\ env.quote = "ok"
        THEN [result |-> TRUE, attempts |-> a1 \o a2]
        ELSE IF original_message_id # "" /\ env.quote = "exception"
        THEN [result |-> FALSE, attempts |-> a1 \o a2]
        ELSE [result |-> env.space = "ok", attempts |-> a1 \o a2 \o <<"space">>]

\* a dispatcher that tries the quoted reply before the threaded reply
send_message_with_fallback_quote_first(thread_id, original_message_id, env) ==
  IF ~ env.auth THEN [result |-> FALSE, attempts |-> <<>>]
  ELSE
    LET a1 == IF original_message_id # "" THEN <<"quote">> ELSE <<>>
        ok1 == original_message_id # "" /\ env.quote = "ok"
        a2 == IF thread_id # <<>> THEN <<"thread">> ELSE <<>>
        ok2 == thread_id # <<>> /\ env.thread = "ok"
    IN  IF ok1 THEN [result |-> TRUE, attempts |-> a1]
        ELSE IF ok2 THEN [result |-> TRUE, attempts |-> a1 \o a2]
        ELSE [result |-> env.space = "ok", attempts |-> a1 \o a2 \o <<"space">>]

\* GoogleChatAPI.send_message_with_fallback on a fresh client (no token yet).
\* thread_id is <<>> for '' / None, original_message_id is "" for None.
\* Every mode swallows its own transport error and returns False.
send_message_with_fallback(thread_id, original_message_id, env) ==
  IF ~ env.auth THEN [result |-> FALSE, attempts |-> <<>>]
  ELSE
    LET a1 == IF thread_id # <<>> THEN <<"thread">> ELSE <<>>
        ok1 == thread_id # <<>> /\ env.thread = "ok"
        a2 == IF original_message_id # "" THEN <<"quote">> ELSE <<>>
        ok2 == original_message_id # "" /\ env.quote = "ok"
    IN  IF ok1 THEN [result |-> TRUE, attempts |-> a1]
        ELSE IF ok2 THEN [result |-> TRUE, attempts |-> a1 \o a2]
        ELSE [result |-> env.space = "ok", attempts |-> a1 \o a2 \o <<"space">>]

\* segments that contain a '.', and the part before the first '.'
DotHead(seg) == IF seg = "tB.mB" THEN "tB" ELSE seg
HasDot(thread_id) == \E k \in 1..Len(thread_id) : DotHead(thread_id[k]) # thread_id[k]

\* notification_node 497-509: the thread id handed to the dispatcher
ProcessedThread(thread_id) ==
  IF thread_id # <<>> /\ thread_id[1] = "spaces" THEN thread_id
  ELSE IF HasDot(thread_id)
       THEN <<"spaces", "S", "threads", DotHead(thread_id[1])>>
       ELSE thread_id

\* ----------------------------------------------------------- run triggers
SlotFree(s) == run[s].pc \in {"idle", "END"}

\* SchedulerService._run_scheduled_workflow: run_workflow() without messages
ScheduledRun ==
  /\ started < MaxRuns
  /\ SlotFree("poll")
  /\ started' = started + 1
  /\ run' = [run EXCEPT !["poll"] = InitialState(started + 1, "poll", <<>>, Len(store))]
  /\ UNCHANGED <<space, store, faults, lost, disp, det>>

\* a webhook handler without the mention test
WebhookReply_ungated(message, found) ==
  IF found # 0
  THEN [status |-> "ticket_exists", message_id |-> message.message_id, ack |-> FALSE]
  ELSE [status |-> "processing", message_id |-> message.message_id, ack |-> TRUE]

\* handle_google_chat_webhook for an event that carries chat message m.
\* found is what find_incident_by_correlation answered (0: None, also when
\* the query failed).
WebhookReply(message, found) ==
  IF ~ bot_mentioned(message.content)
  THEN [status |-> "processing", message_id |-> message.message_id, ack |-> FALSE]
  ELSE IF found # 0
  THEN [status |-> "ticket_exists", message_id |-> message.message_id, ack |-> FALSE]
  ELSE [status |-> "processing", message_id |-> message.message_id, ack |-> TRUE]

Webhook(k) ==
  /\ started < MaxRuns
  /\ SlotFree("webhook")
  /\ LET message == M(<<k, "webhook">>)
     IN \E found \in {FindByCorrelation(message.message_id), 0} :
          /\ IF found # FindByCorrelation(message.message_id)
             THEN MayFail /\ Fail ELSE UNCHANGED faults
          \* asyncio.create_task(self.automation.run_workflow([message]))
          /\ run' = IF WebhookReply(message, found).ack
                    THEN [run EXCEPT !["webhook"] =
                            InitialState(started + 1, "webhook", <<<<k, "webhook">>>>,
                                         Len(store))]
                    ELSE run
  /\ started' = started + 1
  /\ UNCHANGED <<space, store, lost, disp, det>>

\* the messages the test scripts build, by catalogue index: a request that
\* addresses the system, and the WiFi scenario
TestMessages == {1, 6}

\* test_specific_message / run_test_workflow: a script calls run_workflow with
\* a message it built itself; its id "test_<time>" is no message of the space
test_specific_message(k) ==
  /\ started < MaxRuns
  /\ SlotFree("poll")
  /\ \A j \in 1..Len(space) : space[j] # k
  /\ started' = started + 1
  /\ run' = [run EXCEPT !["poll"] =
               InitialState(started + 1, "test", <<<<k, "webhook">>>>, Len(store))]
  /\ UNCHANGED <<space, store, faults, lost, disp, det>>

\* ------------------------------------------------------------------ nodes
\* scheduler_node: entry point, keeps the supplied messages
scheduler_node(s) ==
  /\ run[s].pc = "scheduler"
  /\ run' = [run EXCEPT ![s] = StageDone(run[s])]
  /\ UNCHANGED <<space, store, started, faults, lost, disp, det>>

\* message_fetcher_node: fetch, pre-filter, overwrite state['messages'].
\* get_space_messages swallows its own errors and returns what it had
\* collected so far (a prefix of the space, [] when authentication fails).
message_fetcher_node(s) ==
  /\ run[s].pc = "message_fetcher"
  /\ \/ \E k \in 0..Len(space) :
          /\ IF k < Len(space) THEN MayFail /\ Fail ELSE UNCHANGED faults
          /\ LET fetched == [j \in 1..k |-> <<space[j], "poll">>]
             IN run' = [run EXCEPT ![s] =
                          StageDone([run[s] EXCEPT !.messages = PreFilter(fetched)])]
     \/ /\ MayFail /\ Fail
        /\ run' = [run EXCEPT ![s] = StageError(run[s], "Message fetch error")]
  /\ UNCHANGED <<space, store, started, lost, disp, det>>

\* rule_based_classification of every message a run can hold, computed once:
\* by catalogue index, as the poll path and as the webhook path convert it
ClassifiedPoll ==
  <<>> \o [k \in 1..Len(Catalogue) |-> rule_based_classification(M(<<k, "poll">>))]
ClassifiedWebhook ==
  <<>> \o [k \in 1..Len(Catalogue) |-> rule_based_classification(M(<<k, "webhook">>))]
Classified(ref) ==
  IF ref[2] = "poll" THEN ClassifiedPoll[ref[1]] ELSE ClassifiedWebhook[ref[1]]

HasLink(links, cid) == \E p \in links : p[1] = cid
SetLink(links, cid, number) == {p \in links : p[1] # cid} \cup {<<cid, number>>}

MessageKey(message) == <<message.message_id, message.thread_id>>

\* the loop of optimized_classifier_node over msgs, acc = what it built so far
RECURSIVE ClassifyLoop(_, _, _)
ClassifyLoop(msgs, links, acc) ==
  IF msgs = <<>> THEN acc
  ELSE
    LET message == M(Head(msgs))
        skip == \/ HasLink(links, message.message_id)
                \/ MessageKey(message) \in acc.processed
        classified == Classified(Head(msgs))
        next ==
          IF skip THEN acc
          ELSE IF classified.is_support_request
          THEN [classified |-> Append(acc.classified, Head(msgs)),
                processed  |-> acc.processed \cup {MessageKey(message)},
                seen       |-> acc.seen \cup {message.message_id}]
          ELSE [acc EXCEPT !.seen = @ \cup {message.message_id}]
    IN ClassifyLoop(Tail(msgs), links, next)

optimized_classifier_node(s) ==
  /\ run[s].pc = "classifier"
  /\ LET r == run[s]
         acc0 == [classified |-> <<>>, processed |-> r.processed_messages,
                  seen |-> r.seen]
     IN \/ LET acc == ClassifyLoop(r.messages, r.ticket_links, acc0)
           IN /\ run' = [run EXCEPT ![s] =
                    StageDone([r EXCEPT !.classified_messages = acc.classified,
                                        !.processed_messages = acc.processed,
                                        !.seen = acc.seen])]
              /\ UNCHANGED faults
        \* an exception while message k+1 is handled: the local list is lost
        \/ \E k \in 0..(Len(r.messages) - 1) :
             LET acc == ClassifyLoop(SubSeq(r.messages, 1, k), r.ticket_links, acc0)
             IN /\ MayFail /\ Fail
                /\ run' = [run EXCEPT ![s] =
                      StageError([r EXCEPT !.processed_messages = acc.processed,
                                           !.seen = acc.seen \cup
                                              {M(r.messages[k + 1]).message_id}],
                                 "Classification error")]
  /\ UNCHANGED <<space, store, started, lost, disp, det>>

optimized_summary_node(s) ==
  /\ run[s].pc = "summary"
  /\ LET r == run[s]
     IN \/ /\ run' = [run EXCEPT ![s] =
                 StageDone([r EXCEPT !.summarized_tickets =
                    [k \in 1..Len(r.classified_messages) |->
                       r.classified_messages[k]]])]
           /\ UNCHANGED faults
        \/ /\ r.classified_messages # <<>>
           /\ MayFail /\ Fail
           /\ run' = [run EXCEPT ![s] = StageError(r, "Summary error")]
  /\ UNCHANGED <<space, store, started, lost, disp, det>>

\* The run state keeps a summary as the reference of the message it was made
\* from, and a category as the pair (message, summary) it was computed from.
Summary(of) == create_simple_summary(M(of)) @@ [of |-> of]
Category(pair) == rule_based_categorization(M(pair[1]), Summary(pair[2]))

optimized_category_extractor_node(s) ==
  /\ run[s].pc = "category_extractor"
  /\ LET r == run[s]
     IN \/ /\ run' = [run EXCEPT ![s] =
                 StageDone([r EXCEPT !.categorized_tickets =
                    [k \in 1..Len(r.summarized_tickets) |->
                       <<r.classified_messages[k], r.summarized_tickets[k]>>]])]
           /\ UNCHANGED faults
        \/ /\ r.summarized_tickets # <<>>
           /\ MayFail /\ Fail
           /\ run' = [run EXCEPT ![s] = StageError(r, "Category error")]
  /\ UNCHANGED <<space, store, started, lost, disp, det>>

\* --- servicenow_node: one loop iteration is two steps, the correlation
\* --- lookup and (when nothing was found) the create call
Min(a, b) == IF a <= b THEN a ELSE b

\* zip(summaries, categories, classified_messages)
ZipLen(r) == Min(Len(r.summarized_tickets),
                 Min(Len(r.categorized_tickets), Len(r.classified_messages)))

\* the node's locals go out of scope when it returns
DropLocals(r) == [r EXCEPT !.i = 1, !.created_tickets = <<>>, !.newly = <<>>]

\* a stage that hands on the new tickets but not the list of all tickets
AfterIteration_drops_created(r) ==
  IF r.i < ZipLen(r) THEN [r EXCEPT !.i = @ + 1, !.pc = "servicenow"]
  ELSE StageDone(DropLocals([r EXCEPT !.pc = "servicenow",
                                      !.newly_created_tickets = r.newly]))

\* after iteration i: next iteration, or the assignments after the loop
AfterIteration(r) ==
  IF r.i < ZipLen(r) THEN [r EXCEPT !.i = @ + 1, !.pc = "servicenow"]
  ELSE StageDone(DropLocals([r EXCEPT !.pc = "servicenow",
                                      !.servicenow_tickets = r.created_tickets,
                                      !.newly_created_tickets = r.newly]))

\* the except handler of servicenow_node: the lists built so far are dropped
ServiceNowError(r) ==
  StageError(DropLocals([r EXCEPT !.pc = "servicenow"]), "ServiceNow error")

\* a found incident that is also queued for the notify stage
LinkExisting_notifies(r, cid, existing) ==
  [r EXCEPT !.ticket_links = SetLink(@, cid, existing),
            !.created_tickets = Append(@, existing),
            !.newly = Append(@, [ticket |-> existing, correlation_id |-> cid,
                                 original_message |-> r.classified_messages[r.i]])]

\* an incident was found for cid: link it, list it, create nothing
LinkExisting(r, cid, existing) ==
  [r EXCEPT !.ticket_links = SetLink(@, cid, existing),
            !.created_tickets = Append(@, existing)]

\* the requests a run sends to the ServiceNow instance, in order
FindCall(cid, existing) == <<"find_incident_by_correlation", cid, existing>>
DirectoryCall(cid) == <<"build_incident_assignment_fields", cid, 0>>
CreateCall(cid) == <<"create_incident", cid, 0>>

StoreCalled(r, calls) == [r EXCEPT !.store_calls = @ \o calls]

\* a stage that trusts the link cache alone and asks the store nothing
servicenow_lookup_cache_only(s) ==
  /\ run[s].pc = "servicenow"
  /\ LET r == run[s]
     IN IF ZipLen(r) = 0
        THEN run' = [run EXCEPT ![s] = AfterIteration(r)]
        ELSE IF HasLink(r.ticket_links, M(r.classified_messages[r.i]).message_id)
             THEN run' = [run EXCEPT ![s] = AfterIteration(r)]
             ELSE run' = [run EXCEPT ![s] = [r EXCEPT !.pc = "create_incident"]]
  /\ UNCHANGED <<space, store, started, faults, lost, disp, det>>

\* lookup part of iteration i (lines 381-398)
servicenow_lookup(s) ==
  /\ run[s].pc = "servicenow"
  /\ LET r == run[s]
     IN IF ZipLen(r) = 0
        THEN /\ run' = [run EXCEPT ![s] = AfterIteration(r)]
             /\ UNCHANGED faults
        ELSE LET cid == M(r.classified_messages[r.i]).message_id
             IN IF HasLink(r.ticket_links, cid)
                THEN /\ run' = [run EXCEPT ![s] = AfterIteration(r)]
                     /\ UNCHANGED faults
                ELSE \E existing \in {FindByCorrelation(cid), 0} :
                       /\ IF existing # FindByCorrelation(cid)
                          THEN MayFail /\ Fail ELSE UNCHANGED faults
                       /\ LET q == StoreCalled(r, <<FindCall(cid, existing)>>)
                          IN run' = [run EXCEPT ![s] =
                               IF existing # 0
                               THEN AfterIteration(LinkExisting(q, cid, existing))
                               ELSE [q EXCEPT !.pc = "create_incident"]]
  /\ UNCHANGED <<space, store, started, lost, disp, det>>

\* an exception before the loop (credentials, client construction)
servicenow_setup_fails(s) ==
  /\ run[s].pc = "servicenow"
  /\ run[s].i = 1
  /\ MayFail /\ Fail
  /\ run' = [run EXCEPT ![s] = ServiceNowError(run[s])]
  /\ UNCHANGED <<space, store, started, lost, disp, det>>

\* a stage that does not remember the ticket it has just created
RecordCreated_unlinked(r, original_msg, cid, number) ==
  [r EXCEPT !.created_tickets = Append(@, number),
            !.newly = Append(@, [ticket |-> number, correlation_id |-> cid,
                                 original_message |-> original_msg]),
            !.creates = Append(@, cid)]

\* create_incident succeeded with incident `number`
RecordCreated(r, original_msg, cid, number) ==
  [r EXCEPT !.created_tickets = Append(@, number),
            !.newly = Append(@, [ticket |-> number, correlation_id |-> cid,
                                 original_message |-> original_msg]),
            !.ticket_links = SetLink(@, cid, number),
            !.creates = Append(@, cid)]

\* a stage that records the link before the create call returns
CreateFailed_keeps_link(r, cid) ==
  ServiceNowError([r EXCEPT !.creates = Append(@, cid),
                            !.create_failed = @ \cup {cid},
                            !.ticket_links = SetLink(@, cid, 0)])

\* create_incident raised: control leaves the loop for the except handler
CreateFailed(r, cid) ==
  ServiceNowError([r EXCEPT !.creates = Append(@, cid),
                            !.create_failed = @ \cup {cid}])

\* a stage that pairs every message with the first summary and category
NewTicket_first_pair(r, message, summary, category) ==
  [correlation_id |-> message.message_id, run |-> r.no,
   summary_of |-> r.summarized_tickets[1],
   category_of |-> r.categorized_tickets[1]]

\* the incident create_incident posts; the store keeps the summary and the
\* category as the references Summary and Category compute them from
NewTicket(r, message, summary, category) ==
  [correlation_id |-> message.message_id, run |-> r.no,
   summary_of |-> summary, category_of |-> category]

\* create part of iteration i (lines 400-443): directory lookups, then
\* create_incident; anything that raises here ends the whole stage
servicenow_create(s) ==
  /\ run[s].pc = "create_incident"
  /\ LET p == run[s]
         original_msg == p.classified_messages[p.i]
         message == M(original_msg)
         cid == message.message_id
         number == Len(store) + 1
         r == StoreCalled(p, <<DirectoryCall(cid), CreateCall(cid)>>)
     IN \/ /\ store' = Append(store, NewTicket(r, message, r.summarized_tickets[r.i],
                                               r.categorized_tickets[r.i]))
           /\ run' = [run EXCEPT ![s] =
                AfterIteration(RecordCreated(r, original_msg, cid, number))]
           /\ UNCHANGED <<faults, lost>>
        \* create_incident answered with a status other than 201
        \/ /\ MayFail /\ Fail
           /\ run' = [run EXCEPT ![s] = CreateFailed(r, cid)]
           /\ lost' = lost \cup {cid}
           /\ UNCHANGED store
  /\ UNCHANGED <<space, started, disp, det>>

\* what one dispatcher call for a target can return, over all environments
DispatchResults(thread_id, original_message_id) ==
  {send_message_with_fallback(thread_id, original_message_id, env).result :
     env \in DispatchEnvs}

\* notification_node: one send_message_with_fallback call per entry of
\* newly_created_tickets; sent[k] is what the k-th call returned
notification_node(s) ==
  /\ run[s].pc = "notification"
  /\ LET r == run[s]
         todo == r.newly_created_tickets
     IN \/ \E sent \in [1..Len(todo) -> BOOLEAN] :
             /\ \A k \in 1..Len(todo) :
                  sent[k] \in DispatchResults(
                     ProcessedThread(M(todo[k].original_message).thread_id),
                     M(todo[k].original_message).message_id)
             /\ LET tickets == [k \in 1..Len(todo) |-> todo[k].ticket]
                    ok == SelectSeq([k \in 1..Len(todo) |->
                                       [ticket_number |-> todo[k].ticket,
                                        message_id |-> todo[k].correlation_id,
                                        sent |-> sent[k]]],
                                    LAMBDA n : n.sent)
                IN run' = [run EXCEPT ![s] =
                        StageDone([r EXCEPT !.notifications_sent = ok,
                                            !.dispatched = tickets])]
             /\ UNCHANGED faults
        \* an exception before the loop (credentials, client construction)
        \/ /\ MayFail /\ Fail
           /\ run' = [run EXCEPT ![s] = StageError(r, "Notification error")]
  /\ UNCHANGED <<space, store, started, lost, disp, det>>

\* tracker_node (a placeholder that only sets current_step), END, and the
\* return of run_workflow: the final state is logged and then dropped
tracker_node(s) ==
  /\ run[s].pc = "tracker"
  /\ run' = [run EXCEPT ![s] = [IdleState EXCEPT !.pc = "END"]]
  /\ UNCHANGED <<space, store, started, faults, lost, disp, det>>

Next ==
  \/ ScheduledRun
  \/ \E k \in 1..Len(space) : Webhook(space[k])
  \/ \E k \in TestMessages : test_specific_message(k)
  \/ \E s \in Slots :
       \/ scheduler_node(s)
       \/ message_fetcher_node(s)
       \/ optimized_classifier_node(s)
       \/ optimized_summary_node(s)
       \/ optimized_category_extractor_node(s)
       \/ servicenow_lookup(s)
       \/ servicenow_setup_fails(s)
       \/ servicenow_create(s)
       \/ notification_node(s)
       \/ tracker_node(s)

Spec == Init /\ [][Next]_vars

\* ------------------------------------------- runs that do not overlap
NoRunInFlight == \A t \in Slots : SlotFree(t)

ScheduledRunAlone == NoRunInFlight /\ ScheduledRun

WebhookAlone(k) == NoRunInFlight /\ Webhook(k)

TestAlone(k) == NoRunInFlight /\ test_specific_message(k)

NextSeq ==
  \/ ScheduledRunAlone
  \/ \E k \in 1..Len(space) : WebhookAlone(space[k])
  \/ \E k \in TestMessages : TestAlone(k)
  \/ \E s \in Slots :
       \/ scheduler_node(s)
       \/ message_fetcher_node(s)
       \/ optimized_classifier_node(s)
       \/ optimized_summary_node(s)
       \/ optimized_category_extractor_node(s)
       \/ servicenow_lookup(s)
       \/ servicenow_setup_fails(s)
       \/ servicenow_create(s)
       \/ notification_node(s)
       \/ tracker_node(s)

\* one run at a time: a trigger is delivered only when no run is in flight
SeqSpec == Init /\ [][NextSeq]_vars

\* the graph executor awaits every node of a started run
RunStep(s) ==
  \/ scheduler_node(s)
  \/ message_fetcher_node(s)
  \/ optimized_classifier_node(s)
  \/ optimized_summary_node(s)
  \/ optimized_category_extractor_node(s)
  \/ servicenow_lookup(s)
  \/ servicenow_create(s)
  \/ notification_node(s)
  \/ tracker_node(s)

FairSeqSpec == SeqSpec /\ \A s \in Slots : WF_vars(RunStep(s))

\* every find_incident_by_correlation call of the step answers with the
\* store's content: the lookup of servicenow_node goes on to create only
\* when the store has no incident for the id, and the webhook handler starts
\* a run only when the store has none for the message of the event
TruthfulLookups ==
  /\ \A s \in Slots :
       (run[s].pc = "servicenow" /\ run'[s].pc = "create_incident") =>
         FindByCorrelation(M(run[s].classified_messages[run[s].i]).message_id) = 0
  /\ (SlotFree("webhook") /\ run'["webhook"].pc = "scheduler") =>
       FindByCorrelation(M(run'["webhook"].supplied[1]).message_id) = 0

NextTruthful == NextSeq /\ TruthfulLookups

\* non-overlapping runs over a Ticket Store whose lookups never fail
TruthfulSeqSpec == Init /\ [][NextTruthful]_vars

\* ------------------------------ one call of send_message_with_fallback
ThreadIds == {<<>>, ThreadA, <<"tA">>}

DispatchInit ==
  /\ space = <<>> /\ store = <<>> /\ run = [s \in Slots |-> IdleState]
  /\ started = 0 /\ faults = 0 /\ lost = {} /\ det = NoDetect
  /\ disp \in [phase : {"call"}, thread_id : ThreadIds,
               original_message_id : {"", "m1"}, env : DispatchEnvs]

DispatchCall ==
  /\ disp.phase = "call"
  /\ disp' = [phase |-> "returned", thread_id |-> disp.thread_id,
              original_message_id |-> disp.original_message_id, env |-> disp.env,
              out |-> send_message_with_fallback(disp.thread_id,
                         disp.original_message_id, disp.env)]
  /\ UNCHANGED <<space, store, run, started, faults, lost, det>>

DispatchSpec == DispatchInit /\ [][DispatchCall]_vars

\* --------------------------------------------- one call of detect_duplicates
RecentTicket(n, text) == [number |-> n, description |-> text]

RecentLists ==
  { <<>>, <<RecentTicket(1, TxtRequest)>>,
    <<RecentTicket(1, TxtChatter), RecentTicket(2, TxtRequest)>> }

RecentArgs ==
  {[none |-> TRUE, tickets |-> <<>>]} \cup
  {[none |-> FALSE, tickets |-> l] : l \in RecentLists}

DetectEnvs == [recent : RecentLists, existing : {0, 1}, llm : LlmAnswers]

DetectInit ==
  /\ space = <<>> /\ store = <<>> /\ run = [s \in Slots |-> IdleState]
  /\ started = 0 /\ faults = 0 /\ lost = {} /\ disp = NoDispatch
  /\ det \in [phase : {"call"}, message : 1..Len(Catalogue),
              recent_tickets : RecentArgs, env : DetectEnvs]

DetectCall ==
  /\ det.phase = "call"
  /\ det' = [phase |-> "returned", message |-> det.message,
             recent_tickets |-> det.recent_tickets, env |-> det.env,
             out |-> detect_duplicates(M(<<det.message, "poll">>),
                                       det.recent_tickets, det.env)]
  /\ UNCHANGED <<space, store, run, started, faults, lost, disp>>

DetectSpec == DetectInit /\ [][DetectCall]_vars

\* ------------------------------ detect_duplicates when a step fails
\* the step of a detect_duplicates call in which something unexpected raises:
\*   correlation - the store query inside _check_correlation_id
\*   semantic    - the oracle call inside _llm_duplicate_detection
\*   lexical     - the comparison inside _rule_based_duplicate_detection
\*   unexpected  - the body of detect_duplicates itself (rule 1 on a message
\*                 without text)
DetectFaults == {"none", "correlation", "semantic", "lexical", "unexpected"}

\* the result both except handlers build
DetectionFailed(calls) ==
  [is_duplicate |-> FALSE, confidence |-> 0, rule |-> "failed",
   similar_tickets |-> <<>>, calls |-> calls]

Reached(step, calls) == \E k \in 1..Len(calls) : calls[k] = step

\* the try block of detect_duplicates: _check_correlation_id turns its own
\* exception into None, _llm_duplicate_detection turns its own into the
\* lexical comparison, _rule_based_duplicate_detection turns its own into
\* the failed result; raised tells whether an exception leaves the block
detect_duplicates_try(message, recent_tickets, env, fault) ==
  IF fault = "unexpected"
  THEN [raised |-> TRUE, is_duplicate |-> FALSE, confidence |-> 0,
        rule |-> "raised", similar_tickets |-> <<>>, calls |-> <<>>]
  ELSE
    LET e == [env EXCEPT
                !.existing = IF fault = "correlation" THEN 0 ELSE @,
                !.llm = IF fault = "semantic" /\ @ # "absent" THEN "raises" ELSE @]
        out == detect_duplicates(message, recent_tickets, e)
    IN IF fault = "lexical" /\ Reached("lexical", out.calls)
       THEN DetectionFailed(out.calls) @@ [raised |-> FALSE]
       ELSE out @@ [raised |-> FALSE]

\* a detect_duplicates without its `except Exception` handler
detect_duplicates_unhandled(message, recent_tickets, env, fault) ==
  detect_duplicates_try(message, recent_tickets, env, fault)

\* detect_duplicates with its handler (lines 180-187)
detect_duplicates_handled(message, recent_tickets, env, fault) ==
  LET t == detect_duplicates_try(message, recent_tickets, env, fault)
  IN IF t.raised THEN DetectionFailed(<<>>) @@ [raised |-> FALSE] ELSE t

\* duplicate_detection_node over the message list of a run: the messages it
\* hands on and the errors it records.  stage_fails: an exception in the
\* stage outside detect_duplicates (the agent's construction, the query for
\* the recent tickets).  links and processed are ticket_links and
\* processed_messages of the state the stage is given.
\* the loop of the stage (lines 215-241): a message whose id has an entry in
\* ticket_links is passed over, every other one goes to the duplicates (and
\* its key to processed_messages) or to the unique messages
RECURSIVE DetectionLoop(_, _, _, _, _, _)
DetectionLoop(msgs, links, recent_tickets, env, fault, acc) ==
  IF msgs = <<>> THEN acc
  ELSE
    LET ref == Head(msgs)
        next ==
          IF HasLink(links, M(ref).message_id) THEN acc
          ELSE IF detect_duplicates_handled(
                    M(ref), [none |-> FALSE, tickets |-> recent_tickets],
                    env, fault).is_duplicate
          THEN [acc EXCEPT !.duplicate_messages = Append(@, ref),
                           !.processed_messages = @ \cup {MessageKey(M(ref))}]
          ELSE [acc EXCEPT !.unique_messages = Append(@, ref)]
    IN DetectionLoop(Tail(msgs), links, recent_tickets, env, fault, next)

\* a stage that reports the duplicates but hands every message on
duplicate_detection_node_hands_all_on(messages, links, processed, recent_tickets, env, fault, stage_fails) ==
  LET acc == DetectionLoop(messages, links, recent_tickets, env, fault,
               [unique_messages |-> <<>>, duplicate_messages |-> <<>>,
                processed_messages |-> processed])
  IN [messages |-> messages, unique_messages |-> acc.unique_messages,
      duplicate_messages |-> acc.duplicate_messages,
      processed_messages |-> acc.processed_messages,
      errors |-> IF stage_fails THEN <<"Duplicate detection error">> ELSE <<>>]

duplicate_detection_node(messages, links, processed, recent_tickets, env, fault, stage_fails) ==
  IF stage_fails
  THEN [messages |-> messages, unique_messages |-> <<>>,
        duplicate_messages |-> <<>>, processed_messages |-> processed,
        errors |-> <<"Duplicate detection error">>]
  ELSE
    LET acc == DetectionLoop(messages, links, recent_tickets, env, fault,
                 [unique_messages |-> <<>>, duplicate_messages |-> <<>>,
                  processed_messages |-> processed])
    IN [messages |-> acc.unique_messages,
        unique_messages |-> acc.unique_messages,
        duplicate_messages |-> acc.duplicate_messages,
        processed_messages |-> acc.processed_messages,
        errors |-> <<>>]

FailOpenInit ==
  /\ space = <<>> /\ store = <<>> /\ run = [s \in Slots |-> IdleState]
  /\ started = 0 /\ faults = 0 /\ lost = {} /\ disp = NoDispatch
  /\ det \in [phase : {"call"}, message : 1..Len(Catalogue),
              recent_tickets : RecentArgs, env : DetectEnvs,
              fault : DetectFaults, stage_fails : BOOLEAN]

\* one detect_duplicates call
FailOpenCall ==
  /\ det.phase = "call"
  /\ ~ det.stage_fails
  /\ det' = [det EXCEPT !.phase = "returned"] @@
            [out |-> detect_duplicates_handled(M(<<det.message, "poll">>),
                        det.recent_tickets, det.env, det.fault)]
  /\ UNCHANGED <<space, store, run, started, faults, lost, disp>>

\* one execution of the stage over a one-message list
FailOpenStage ==
  /\ det.phase = "call"
  /\ ~ det.recent_tickets.none
  /\ det' = [det EXCEPT !.phase = "stage_returned"] @@
            [state |-> duplicate_detection_node(<<<<det.message, "poll">>>>,
                          {}, {}, det.recent_tickets.tickets, det.env,
                          det.fault, det.stage_fails)]
  /\ UNCHANGED <<space, store, run, started, faults, lost, disp>>

FailOpenNext == FailOpenCall \/ FailOpenStage

FailOpenSpec == FailOpenInit /\ [][FailOpenNext]_vars

\* ------------------ the oracle agents: categorize_ticket, classify_message
\* What the Oracle's answer is to the JSON parsing of an agent:
\*   object      - a JSON object with every key the agent reads
\*   not_json    - text json.loads rejects (JSONDecodeError)
\*   not_object  - valid JSON that is no object (a list, a number)
\*   missing_key - a JSON object without one of the keys the agent reads
\*   raises      - the call to the Oracle itself raised
AnswerKinds == {"object", "not_json", "not_object", "missing_key", "raises"}

\* Category(value) and Priority(value): the enum member for a value, "" when
\* the value names none (ValueError)
CategoryMember(value) ==
  CASE value = "hardware" -> "HARDWARE" [] value = "software" -> "SOFTWARE"
    [] value = "network"  -> "NETWORK"  [] value = "access"   -> "ACCESS"
    [] value = "email"    -> "EMAIL"    [] value = "printing" -> "PRINTING"
    [] value = "security" -> "SECURITY" [] value = "other"    -> "OTHER"
    [] OTHER -> ""

PriorityMember(value) ==
  CASE value = "1" -> "CRITICAL" [] value = "2" -> "HIGH"
    [] value = "3" -> "MODERATE" [] value = "4" -> "LOW"
    [] value = "5" -> "PLANNING" [] OTHER -> ""

CategorizeAnswers ==
  [kind : {"object"}, category : {"network", "other", "Network", "misc"},
   priority : {"1", "3", "urgent"}, urgency : {"1", "3"},
   subcategory : {"VPN"}, assignment_group : {"IT Support", "Network Team"}]
  \cup [kind : AnswerKinds \ {"object"}, category : {"network"}, priority : {"1"},
        urgency : {"1"}, subcategory : {"VPN"},
        assignment_group : {"Network Team"}]

\* the TicketCategory both fallbacks of categorize_ticket amount to
DefaultCategory ==
  [aborted |-> FALSE, category |-> "OTHER", priority |-> "MODERATE",
   subcategory |-> "General", urgency |-> "3", assignment_group |-> "IT Support"]

\* the inner try of categorize_ticket and the TicketCategory construction:
\* raised when an exception other than JSONDecodeError occurs
categorize_ticket_try(answer) ==
  LET result == IF answer.kind = "not_json"
                THEN [category |-> "other", priority |-> "3", urgency |-> "3",
                      subcategory |-> "General", assignment_group |-> "IT Support"]
                ELSE [category |-> answer.category, priority |-> answer.priority,
                      urgency |-> answer.urgency, subcategory |-> answer.subcategory,
                      assignment_group |-> answer.assignment_group]
  IN IF \/ answer.kind \in {"not_object", "missing_key", "raises"}
        \/ CategoryMember(result.category) = ""
        \/ PriorityMember(result.priority) = ""
     THEN [DefaultCategory EXCEPT !.aborted = TRUE]
     ELSE [aborted |-> FALSE, category |-> CategoryMember(result.category),
           priority |-> PriorityMember(result.priority),
           subcategory |-> result.subcategory, urgency |-> result.urgency,
           assignment_group |-> result.assignment_group]

\* a categorize_ticket without its outer `except Exception` handler
categorize_ticket_unguarded(answer) == categorize_ticket_try(answer)

\* CategoryExtractorAgent.categorize_ticket
categorize_ticket(answer) ==
  LET t == categorize_ticket_try(answer)
  IN IF t.aborted THEN DefaultCategory ELSE t

ClassifyAnswers ==
  [kind : {"object"}, is_support_request : BOOLEAN, confidence : {20, 95}]
  \cup [kind : AnswerKinds \ {"object"}, is_support_request : {FALSE},
        confidence : {95}]

\* ClassifierAgent.classify_message: the JSONDecodeError fallback (0.8) and
\* the outer handler (0.5) both answer "is a support request"
classify_message(message, answer) ==
  IF answer.kind = "not_json"
  THEN [aborted |-> FALSE, original_message |-> message,
        is_support_request |-> TRUE, confidence |-> 80, reasoning |-> "fallback"]
  ELSE IF answer.kind \in {"not_object", "missing_key", "raises"}
  THEN [aborted |-> FALSE, original_message |-> message,
        is_support_request |-> TRUE, confidence |-> 50, reasoning |-> "failed"]
  ELSE [aborted |-> FALSE, original_message |-> message,
        is_support_request |-> answer.is_support_request,
        confidence |-> answer.confidence, reasoning |-> "oracle"]

AgentInit ==
  /\ space = <<>> /\ store = <<>> /\ run = [s \in Slots |-> IdleState]
  /\ started = 0 /\ faults = 0 /\ lost = {} /\ disp = NoDispatch
  /\ det \in [phase : {"categorize"}, message : 1..Len(Catalogue),
              answer : CategorizeAnswers]
       \cup [phase : {"classify"}, message : 1..Len(Catalogue),
             answer : ClassifyAnswers]

CategorizeCall ==
  /\ det.phase = "categorize"
  /\ det' = [phase |-> "categorized", message |-> det.message,
             answer |-> det.answer, out |-> categorize_ticket(det.answer)]
  /\ UNCHANGED <<space, store, run, started, faults, lost, disp>>

ClassifyCall ==
  /\ det.phase = "classify"
  /\ det' = [phase |-> "classified", message |-> det.message,
             answer |-> det.answer,
             out |-> classify_message(det.message, det.answer)]
  /\ UNCHANGED <<space, store, run, started, faults, lost, disp>>

AgentNext == CategorizeCall \/ ClassifyCall

AgentSpec == AgentInit /\ [][AgentNext]_vars

\* --------------------------- the directory lookups before create_incident
\* What the directory answers: a user lookup finds no record, a record, or
\* a record without sys_id; the group lookup finds no group, a group without
\* sys_id, a group without an active member, or a group with one
UserAnswers == {"none", "found", "no_sys_id"}
GroupAnswers == {"none", "no_sys_id", "no_member", "member"}

DirectoryEnvs == [by_email : UserAnswers, by_name : UserAnswers, group : GroupAnswers]

\* the sys_id a user record carries, "" for None
UserSysId(answer, sys_id) == IF answer = "found" THEN sys_id ELSE ""

\* a resolution that asks for the name whether or not the email matched
build_incident_assignment_fields_name_always(has_email, has_name, has_group, env) ==
  LET c1 == IF has_email THEN <<"find_user_by_email">> ELSE <<>>
      c2 == IF has_name THEN <<"find_user_by_name">> ELSE <<>>
      c3 == IF has_group THEN <<"resolve_group_and_assignee">> ELSE <<>>
  IN [caller_id |-> IF has_name THEN UserSysId(env.by_name, "user_by_name")
                    ELSE IF has_email THEN UserSysId(env.by_email, "user_by_email")
                    ELSE "",
      assignment_group |-> IF has_group /\ env.group \in {"no_member", "member"}
                           THEN "group" ELSE "",
      assigned_to |-> IF has_group /\ env.group = "member" THEN "member" ELSE "",
      calls |-> c1 \o c2 \o c3]

\* build_incident_assignment_fields: a field is "" when the function leaves
\* its key out; calls lists the directory queries in order
build_incident_assignment_fields(has_email, has_name, has_group, env) ==
  LET by_email == IF has_email THEN env.by_email ELSE "none"
      c1 == IF has_email THEN <<"find_user_by_email">> ELSE <<>>
      ask_name == by_email = "none" /\ has_name
      caller == IF ask_name THEN env.by_name ELSE by_email
      c2 == IF ask_name THEN <<"find_user_by_name">> ELSE <<>>
      c3 == IF has_group THEN <<"resolve_group_and_assignee">> ELSE <<>>
  IN [caller_id |-> UserSysId(caller, IF ask_name THEN "user_by_name"
                                      ELSE "user_by_email"),
      assignment_group |-> IF has_group /\ env.group \in {"no_member", "member"}
                           THEN "group" ELSE "",
      assigned_to |-> IF has_group /\ env.group = "member" THEN "member" ELSE "",
      calls |-> c1 \o c2 \o c3]

DirectoryInit ==
  /\ space = <<>> /\ store = <<>> /\ run = [s \in Slots |-> IdleState]
  /\ started = 0 /\ faults = 0 /\ lost = {} /\ disp = NoDispatch
  /\ det \in [phase : {"resolve"}, message : {1, 2}, has_email : BOOLEAN,
              has_name : BOOLEAN, has_group : BOOLEAN, env : DirectoryEnvs]

\* servicenow_node 400-431 for one request: the directory lookups, the
\* ticket data, and the create_incident call with its payload
ResolveAndCreate ==
  /\ det.phase = "resolve"
  /\ LET fields == build_incident_assignment_fields(
                     det.has_email, det.has_name, det.has_group, det.env)
         cid == M(<<det.message, "poll">>).message_id
     IN det' = [det EXCEPT !.phase = "created"] @@
               [fields |-> fields,
                errors |-> <<>>,
                calls |-> fields.calls \o <<"create_incident">>,
                payload |-> [correlation_id |-> cid,
                             caller_id |-> fields.caller_id,
                             assignment_group |-> fields.assignment_group]]
  /\ UNCHANGED <<space, store, run, started, faults, lost, disp>>

DirectorySpec == DirectoryInit /\ [][ResolveAndCreate]_vars

\* ------------------------------- start() and stop() of SchedulerService
\* how many start() and stop() calls a behaviour makes
MaxCalls == 5

\* SchedulerService.__init__ and the empty job list of the schedule module;
\* threads holds, per loop thread ever started, where it stands
LifecycleInitial ==
  [phase |-> "lifecycle", running |-> FALSE, jobs |-> 0, threads |-> <<>>,
   calls |-> 0]

LifecycleInit ==
  /\ space = <<>> /\ store = <<>> /\ run = [s \in Slots |-> IdleState]
  /\ started = 0 /\ faults = 0 /\ lost = {} /\ det = NoDetect
  /\ disp = LifecycleInitial

\* start(): returns at once when running; otherwise registers the jobs with
\* schedule.every(...).do(...), sets running and starts a new loop thread
SchedulerService_start ==
  /\ disp.calls < MaxCalls
  /\ disp' = IF disp.running
             THEN [disp EXCEPT !.calls = @ + 1]
             ELSE [disp EXCEPT !.calls = @ + 1, !.jobs = @ + 1,
                               !.running = TRUE,
                               !.threads = Append(@, "while")]
  /\ UNCHANGED <<space, store, run, started, faults, lost, det>>

\* stop(): returns at once when not running; otherwise clears running and
\* waits at most one second for self.thread, then returns either way
SchedulerService_stop ==
  /\ disp.calls < MaxCalls
  /\ disp' = [disp EXCEPT !.calls = @ + 1, !.running = FALSE]
  /\ UNCHANGED <<space, store, run, started, faults, lost, det>>

\* `while self.running` as thread t reads it
lifecycle_loop_while(t) ==
  /\ disp.threads[t] = "while"
  /\ disp' = [disp EXCEPT !.threads[t] =
                IF disp.running THEN "run_pending" ELSE "returned"]
  /\ UNCHANGED <<space, store, run, started, faults, lost, det>>

\* schedule.run_pending(), then the thread goes to sleep
lifecycle_run_pending(t) ==
  /\ disp.threads[t] = "run_pending"
  /\ disp' = [disp EXCEPT !.threads[t] = "sleep"]
  /\ UNCHANGED <<space, store, run, started, faults, lost, det>>

\* the sleep of the loop body is over (a minute, or at the first ten-second
\* slice that finds running cleared): back to the loop condition
lifecycle_wakes(t) ==
  /\ disp.threads[t] = "sleep"
  /\ disp' = [disp EXCEPT !.threads[t] = "while"]
  /\ UNCHANGED <<space, store, run, started, faults, lost, det>>

LifecycleNext ==
  \/ SchedulerService_start
  \/ SchedulerService_stop
  \/ \E t \in 1..Len(disp.threads) :
       \/ lifecycle_loop_while(t)
       \/ lifecycle_run_pending(t)
       \/ lifecycle_wakes(t)

LifecycleSpec == LifecycleInit /\ [][LifecycleNext]_vars

\* ------------------------- the system's own posts, fetched from the chat
\* notification_text of notification_node with the ticket's title, status
\* and priority lines and the link
notification_text(title) ==
  <<"[ticket]", "**", "Support", "Ticket", "Created", "**",
    "**", "Ticket", "Number", ":", "**", "INC0010078",
    "**", "Title", ":", "**">> \o title \o
  <<"**", "Status", ":", "**", "1",
    "**", "Priority", ":", "**", "3",
    "**", "View", "Ticket", ":", "**", "[", "Open", "in", "ServiceNow", "]",
    "Your", "request", "has", "been", "processed", "and", "a",
    "ticket", "has", "been", "created", ".",
    "You", "will", "receive", "updates", "as", "the", "issue", "progresses", ".">>

\* what the system posts: the webhook handler's acknowledgement and the
\* confirmations of the notify stage
PostedTexts ==
  {TxtAck, TxtNotification} \cup
  {notification_text(title) : title \in {TxtRequest, TxtWifi, TxtChatter, TxtQuotedBanner}}

\* a sender the pre-filter has no rule for
UserHelper == [user_id |-> <<"303">>, user_name |-> <<"Helper">>]

EchoSenders == {UserAlice, UserHelper, UserBotByName, UserBotById}

\* the posted text as get_space_messages returns it in a later fetch
EchoMessage(e) == FromPoll(ChatMsg("echo", e.thread, e.user, e.text))

EchoInit ==
  /\ space = <<>> /\ store = <<>> /\ run = [s \in Slots |-> IdleState]
  /\ started = 0 /\ faults = 0 /\ lost = {} /\ disp = NoDispatch
  /\ det \in [phase : {"posted"}, text : PostedTexts, user : EchoSenders,
              thread : {<<>>, ThreadA, ThreadB}]

\* the pre-filter of message_fetcher_node on the fetched post
echo_fetched ==
  /\ det.phase = "posted"
  /\ det' = [det EXCEPT !.phase =
               IF PreFilterDrops(EchoMessage(det)) THEN "dropped" ELSE "kept"]
  /\ UNCHANGED <<space, store, run, started, faults, lost, disp>>

\* optimized_classifier_node on a post the pre-filter kept
echo_classified ==
  /\ det.phase = "kept"
  /\ det' = [det EXCEPT !.phase =
               IF rule_based_classification(EchoMessage(det)).is_support_request
               THEN "request" ELSE "not_request"]
  /\ UNCHANGED <<space, store, run, started, faults, lost, disp>>

\* summary, category and servicenow stages: no stage after classification
\* looks at the text again, the request gets its ticket
echo_ticketed ==
  /\ det.phase = "request"
  /\ det' = [det EXCEPT !.phase = "ticketed"]
  /\ UNCHANGED <<space, store, run, started, faults, lost, disp>>

EchoNext == echo_fetched \/ echo_classified \/ echo_ticketed

EchoSpec == EchoInit /\ [][EchoNext]_vars

\* ------------------------------ a fetched list in which an id recurs
\* m1 as the poll path and as the webhook path hold it (same id, two thread
\* references), and m2
RecurRefs == { <<1, "poll">>, <<1, "webhook">>, <<2, "poll">> }

\* how long a fetched list with recurring ids gets
MaxFetched == 3

RecurLists ==
  UNION { [1..n -> RecurRefs] : n \in 1..MaxFetched }

\* the run state as message_fetcher_node leaves it: state['messages'] is the
\* list it kept, the classify stage comes next
RecurInit ==
  /\ space = <<>> /\ store = <<>> /\ started = 1 /\ faults = 0 /\ lost = {}
  /\ disp = NoDispatch /\ det = NoDetect
  /\ \E fetched \in RecurLists :
       run = [s \in Slots |->
                IF s = "poll"
                THEN [InitialState(1, "poll", <<>>, 0) EXCEPT
                        !.pc = "classifier", !.messages = fetched,
                        !.visited = <<"scheduler", "message_fetcher">>]
                ELSE IdleState]

RecurNext ==
  \/ optimized_classifier_node("poll")
  \/ optimized_summary_node("poll")
  \/ optimized_category_extractor_node("poll")
  \/ servicenow_lookup("poll")
  \/ servicenow_setup_fails("poll")
  \/ servicenow_create("poll")
  \/ notification_node("poll")
  \/ tracker_node("poll")

RecurSpec == RecurInit /\ [][RecurNext]_vars

\* ------------------------------ one execution of duplicate_detection_node
\* The stage over a list of up to MaxFetched messages, in a state whose
\* ticket_links is empty or holds the id of one of them, followed by the
\* classify stage over the message list the stage left.
PartitionRefs == { <<1, "poll">>, <<2, "poll">>, <<6, "poll">> }

PartitionLists ==
  UNION { [1..n -> PartitionRefs] : n \in 0..MaxFetched }

PartitionLinks == { {}, {<<"m1", 1>>} }

PartitionInit ==
  /\ space = <<>> /\ store = <<>> /\ run = [s \in Slots |-> IdleState]
  /\ started = 0 /\ faults = 0 /\ lost = {} /\ disp = NoDispatch
  /\ det \in [phase : {"stage"}, messages : PartitionLists,
              ticket_links : PartitionLinks, recent_tickets : RecentLists,
              env : [recent : {<<>>}, existing : {0, 1}, llm : LlmAnswers],
              fault : DetectFaults, stage_fails : BOOLEAN]

partition_duplicate_detection ==
  /\ det.phase = "stage"
  /\ det' = [det EXCEPT !.phase = "detected"] @@
            [state |-> duplicate_detection_node(det.messages, det.ticket_links,
                          {}, det.recent_tickets, det.env, det.fault,
                          det.stage_fails)]
  /\ UNCHANGED <<space, store, run, started, faults, lost, disp>>

partition_classifier ==
  /\ det.phase = "detected"
  /\ det' = [det EXCEPT !.phase = "classified"] @@
            [classified |->
               ClassifyLoop(det.state.messages, det.ticket_links,
                            [classified |-> <<>>,
                             processed |-> det.state.processed_messages,
                             seen |-> {}]).classified]
  /\ UNCHANGED <<space, store, run, started, faults, lost, disp>>

PartitionNext == partition_duplicate_detection \/ partition_classifier

PartitionSpec == PartitionInit /\ [][PartitionNext]_vars

\* ------------------------- one call of _rule_based_duplicate_detection
\* texts of whitespace-separated words (content.split())
LexMessage10 == <<"vpn", "drops", "every", "morning", "after", "login", "on",
                  "my", "office", "laptop">>
LexMessage4  == <<"vpn", "drops", "every", "morning">>
LexRepeated  == <<"vpn", "vpn", "vpn", "drops", "every">>
LexShares3Of10 == <<"vpn", "drops", "every", "evening", "before", "logout",
                    "at", "her", "home", "desktop">>
LexShares4Of10 == <<"vpn", "drops", "every", "morning", "before", "logout",
                    "at", "her", "home", "desktop">>
LexShares3Of3 == <<"vpn", "drops", "every">>
LexShares2 == <<"vpn", "drops">>

LexContents == {LexMessage10, LexMessage4, LexRepeated, TxtRequest}
LexDescriptions ==
  {<<>>, LexShares3Of10, LexShares4Of10, LexShares3Of3, LexShares2,
   LowerStr(TxtRequest)}

\* the recent tickets handed to the rule, numbered by position
LexLists ==
  {<<>>} \cup {<<RecentTicket(1, d)>> : d \in LexDescriptions}
         \cup {<<RecentTicket(1, d), RecentTicket(2, e)>> :
                  d \in LexDescriptions, e \in LexDescriptions}

LexInit ==
  /\ space = <<>> /\ store = <<>> /\ run = [s \in Slots |-> IdleState]
  /\ started = 0 /\ faults = 0 /\ lost = {} /\ disp = NoDispatch
  /\ det \in [phase : {"lexical_call"}, content : LexContents,
              recent_tickets : LexLists]

LexCall ==
  /\ det.phase = "lexical_call"
  /\ det' = [phase |-> "lexical_returned", content |-> det.content,
             recent_tickets |-> det.recent_tickets,
             out |-> rule_based_duplicate_detection(det.content, det.recent_tickets)]
  /\ UNCHANGED <<space, store, run, started, faults, lost, disp>>

LexSpec == LexInit /\ [][LexCall]_vars

\* ------------------------------------- the scheduler service and shutdown
\* SchedulerService after start(): running is set and the daemon thread is
\* at the head of _scheduler_loop; the main thread serves the webhooks
ServiceStarted ==
  [phase |-> "service", running |-> TRUE, loop |-> "while",
   signalled |-> FALSE, at_signal |-> 0, stopped |-> FALSE, exited |-> FALSE,
   raised |-> 0]

ServiceInit ==
  /\ space \in SubSeqs([k \in 1..Len(Catalogue) |-> k], 1, MaxSpace)
  /\ store = <<>>
  /\ run = [s \in Slots |-> IdleState]
  /\ started = 0
  /\ faults = 0
  /\ lost = {}
  /\ disp = ServiceStarted
  /\ det = NoDetect

\* _scheduler_loop, `while self.running`: read by the scheduler thread
scheduler_loop_while ==
  /\ disp.loop = "while" /\ ~ disp.exited
  /\ disp' = [disp EXCEPT !.loop = IF disp.running THEN "run_pending" ELSE "returned"]
  /\ UNCHANGED <<space, store, run, started, faults, lost, det>>

\* schedule.run_pending() with the workflow job due: _run_scheduled_workflow
\* runs run_workflow() to completion on the scheduler thread
run_pending_due ==
  /\ disp.loop = "run_pending" /\ ~ disp.exited
  /\ started < MaxRuns
  /\ SlotFree("poll")
  /\ started' = started + 1
  /\ run' = [run EXCEPT !["poll"] = InitialState(started + 1, "poll", <<>>, Len(store))]
  /\ disp' = [disp EXCEPT !.loop = "job"]
  /\ UNCHANGED <<space, store, faults, lost, det>>

\* schedule.run_pending() with nothing due, then the sleep of the loop body
run_pending_idle ==
  /\ disp.loop = "run_pending" /\ ~ disp.exited
  /\ disp' = [disp EXCEPT !.loop = "while"]
  /\ UNCHANGED <<space, store, run, started, faults, lost, det>>

\* run_until_complete returned: back to the loop
scheduled_workflow_returns ==
  /\ disp.loop = "job" /\ ~ disp.exited
  /\ run["poll"].pc = "END"
  /\ disp' = [disp EXCEPT !.loop = "while"]
  /\ UNCHANGED <<space, store, run, started, faults, lost, det>>

\* a scheduler thread that dies of the exception of its job
scheduled_workflow_failed_uncaught(d) ==
  [d EXCEPT !.loop = "returned", !.raised = @ + 1]

\* `except Exception as e` of _run_scheduled_workflow: the error is logged,
\* the job returns normally and the loop goes on to its sleep
scheduled_workflow_failed(d) ==
  [d EXCEPT !.loop = "while", !.raised = @ + 1]

\* run_workflow raises in the middle of the scheduled run (ainvoke or
\* _log_workflow_results fails; main.py 59-61 re-raises): the run's state is
\* dropped with the coroutine
scheduled_workflow_raises ==
  /\ disp.loop = "job" /\ ~ disp.exited
  /\ MayFail /\ Fail
  /\ run' = [run EXCEPT !["poll"] = [IdleState EXCEPT !.pc = "END"]]
  /\ disp' = scheduled_workflow_failed(disp)
  /\ UNCHANGED <<space, store, started, lost, det>>

\* signal_handler(sig, frame) on the main thread, then KeyboardInterrupt
signal_handler ==
  /\ ~ disp.signalled /\ ~ disp.exited
  /\ disp' = [disp EXCEPT !.running = FALSE, !.signalled = TRUE,
                          !.at_signal = started]
  /\ UNCHANGED <<space, store, run, started, faults, lost, det>>

\* SchedulerService.stop() as called from the finally block of main(): it
\* returns at once when running is already cleared, and otherwise after
\* join(timeout=1.0), whether or not the thread has ended
stop_returns(d) == [d EXCEPT !.running = FALSE, !.stopped = TRUE]

stop ==
  /\ disp.signalled /\ ~ disp.stopped /\ ~ disp.exited
  /\ disp' = stop_returns(disp)
  /\ UNCHANGED <<space, store, run, started, faults, lost, det>>

\* main() returns and the interpreter exits: the daemon thread ends with it
process_exit ==
  /\ disp.stopped /\ ~ disp.exited
  /\ disp' = [disp EXCEPT !.exited = TRUE]
  /\ UNCHANGED <<space, store, run, started, faults, lost, det>>

\* the stages of the scheduled run, executed by the scheduler thread
ServiceRunStep ==
  /\ ~ disp.exited
  /\ \/ scheduler_node("poll")
     \/ message_fetcher_node("poll")
     \/ optimized_classifier_node("poll")
     \/ optimized_summary_node("poll")
     \/ optimized_category_extractor_node("poll")
     \/ servicenow_lookup("poll")
     \/ servicenow_setup_fails("poll")
     \/ servicenow_create("poll")
     \/ notification_node("poll")
     \/ tracker_node("poll")

ServiceNext ==
  \/ scheduler_loop_while
  \/ run_pending_due
  \/ run_pending_idle
  \/ scheduled_workflow_returns
  \/ scheduled_workflow_raises
  \/ signal_handler
  \/ stop
  \/ process_exit
  \/ ServiceRunStep

ServiceSpec == ServiceInit /\ [][ServiceNext]_vars

\* ======================================================= checked properties
Range(q) == {q[k] : k \in 1..Len(q)}
Count(x, q) == Cardinality({k \in 1..Len(q) : q[k] = x})

\* C1 -- Idempotency: among runs that may overlap and interleave at every
\* store call, at most one ticket per correlation id exists in the Ticket
\* Store (exactly one create call for the id reaches the store).  Stated for
\* the behaviours in which no call fails, under Spec.
C1_AtMostOneTicketPerMessage ==
  faults = 0 => \A cid \in MessageIds : Cardinality(TicketsFor(cid)) <= 1

\* the notification banner of the confirmation text, matched as the pre-filter
\* matches it
HasBanner(content) ==
  Occurs(Lit(<<"[ticket]", "**", "support", "ticket", "created", "**">>),
         LowerStr(content))

IsEcho(k) ==
  HasBanner(Catalogue[k].content) \/ is_bot_message(FromPoll(Catalogue[k]))

\* C2 -- Self-loop prevention: in every run (poll or webhook), a message whose
\* text contains the notification banner or whose sender matches the bot
\* identity never reaches the classify stage and never causes a create call,
\* also when the fetch stage fails.  Under Spec.
C2_EchoNeverClassifiedNorTicketed ==
  \A k \in 1..Len(Catalogue) :
    IsEcho(k) =>
      /\ \A s \in Slots : /\ Catalogue[k].message_id \notin run[s].seen
                          /\ Catalogue[k].message_id \notin Range(run[s].creates)
      /\ TicketsFor(Catalogue[k].message_id) = {}

\* C3 -- The dispatcher is invoked only for tickets created by a create call
\* of the same run; a ticket the create-ticket stage found (by link or by
\* correlation lookup) is never handed to the dispatcher, and every entry of
\* notifications_sent is one of the dispatched tickets.  Under SeqSpec.
C3_OnlyNewTicketsNotified ==
  \A s \in Slots :
    LET r == run[s]
    IN /\ \A k \in 1..Len(r.dispatched) :
            /\ r.dispatched[k] \in (r.base + 1)..Len(store)
            /\ store[r.dispatched[k]].run = r.no
            /\ store[r.dispatched[k]].correlation_id \in Range(r.creates)
       /\ \A k \in 1..Len(r.notifications_sent) :
            r.notifications_sent[k].ticket_number \in Range(r.dispatched)

\* a finished notify stage of a run that found one ticket and created another
C3_FoundTicketNotNotified ==
  \E s \in Slots :
    LET r == run[s]
    IN /\ r.pc = "tracker"
       /\ \E n \in Range(r.servicenow_tickets) : n <= r.base
       /\ r.dispatched # <<>>
       /\ \A n \in Range(r.servicenow_tickets) :
            n <= r.base => n \notin Range(r.dispatched)

\* C4 -- Fallback order: for a target with a thread reference the threaded
\* reply is the first attempt; when it succeeds nothing else is attempted; the
\* space message is attempted last and only after the threaded reply and (when
\* the original message id is known) the quoted reply failed.  Under DispatchSpec.
C4_FallbackOrder ==
  (disp.phase = "returned" /\ disp.thread_id # <<>>) =>
    LET a == disp.out.attempts
    IN /\ a # <<>> => a[1] = "thread"
       /\ \A k \in 1..Len(a) : a[k] = "thread" => k = 1
       /\ \A k \in 1..Len(a) : a[k] = "quote" => k = 2
       /\ disp.env.thread = "ok" => (a \in {<<>>, <<"thread">>} /\ (a # <<>> => disp.out.result))
       /\ \A k \in 1..Len(a) :
            a[k] = "space" =>
              /\ k = Len(a)
              /\ disp.env.thread # "ok"
              /\ disp.original_message_id # "" =>
                   (a[k - 1] = "quote" /\ disp.env.quote # "ok")

\* a call that went through all three modes
C4_AllModesTried ==
  /\ disp.phase = "returned"
  /\ disp.thread_id # <<>>
  /\ disp.out.attempts = <<"thread", "quote", "space">>
  /\ disp.out.result

\* C5 -- Fail-open: when the classify stage throws, classified_messages is
\* empty, the stage leaves exactly one entry in errors (the only entry when no
\* other stage failed), the run goes on through the later stages, no create
\* call is made, and no exception escapes run_workflow.  Under SeqSpec.
C5_ClassifyFailsOpen ==
  \A s \in Slots :
    LET r == run[s]
    IN "classifier" \in Range(r.threw) =>
         /\ r.classified_messages = <<>>
         /\ Count("Classification error", r.errors) = 1
         /\ Len(r.errors) = Len(r.threw)
         /\ r.threw = <<"classifier">> => r.errors = <<"Classification error">>
         /\ r.creates = <<>>
         /\ \A n \in 1..Len(store) : store[n].run # r.no
         /\ ~ r.escaped
         /\ r.pc \in {"summary", "category_extractor", "servicenow",
                      "notification", "tracker"}

\* a run that is past the notify stage after its classify stage threw
C5_RunCompletedAfterClassifyThrew ==
  \E s \in Slots :
    /\ run[s].pc = "tracker"
    /\ run[s].threw = <<"classifier">>
    /\ run[s].messages # <<>>
    /\ "notification" \in Range(run[s].visited)

\* the fixed order of a run: the entry node, the six stages, the tracker
C6_Order ==
  <<"scheduler", "message_fetcher", "classifier", "summary",
    "category_extractor", "servicenow", "notification", "tracker">>

C6_Position(pc) ==
  IF pc = "create_incident" THEN 6
  ELSE CHOOSE k \in 1..Len(C6_Order) : C6_Order[k] = pc

C6_Label(stage) ==
  CASE stage = "message_fetcher"    -> "Message fetch error"
    [] stage = "classifier"         -> "Classification error"
    [] stage = "summary"            -> "Summary error"
    [] stage = "category_extractor" -> "Category error"
    [] stage = "servicenow"         -> "ServiceNow error"
    [] stage = "notification"       -> "Notification error"

C6_InFlight(s) == run[s].pc \notin {"idle", "END"}

\* C6 -- Every run terminates: whatever stages throw, a run in flight has
\* visited exactly the stages before its position in the fixed order, each
\* once; it only ever moves to the next stage, the terminal state comes after
\* the tracker that follows notify; every stage that threw has left exactly
\* one entry in errors; and every started run reaches its terminal state.
\* Under FairSeqSpec.
C6_RunTerminatesInOrder ==
  /\ [](\A s \in Slots :
          C6_InFlight(s) =>
            /\ run[s].visited = SubSeq(C6_Order, 1, C6_Position(run[s].pc) - 1)
            /\ Len(run[s].errors) = Len(run[s].threw)
            /\ \A k \in 1..Len(run[s].threw) :
                 /\ run[s].errors[k] = C6_Label(run[s].threw[k])
                 /\ \A j \in 1..Len(run[s].threw) :
                      run[s].threw[j] = run[s].threw[k] => j = k
            /\ ~ run[s].escaped)
  /\ [][\A s \in Slots :
          (C6_InFlight(s) /\ run'[s].pc # run[s].pc) =>
            IF run[s].pc = "tracker" THEN run'[s].pc = "END"
            ELSE /\ C6_InFlight(s)'
                 /\ C6_Position(run'[s].pc) \in
                      {C6_Position(run[s].pc), C6_Position(run[s].pc) + 1}]_vars
  /\ \A s \in Slots : C6_InFlight(s) ~> (run[s].pc = "END")

\* a run that reached the tracker although two of its stages threw
C6_TwoStagesThrew ==
  \E s \in Slots : run[s].pc = "tracker" /\ Len(run[s].threw) = 2

\* C7 -- Exactly-once notification call per created ticket: when a run's
\* notify stage has run without failing itself, the dispatcher was invoked
\* exactly once for every ticket a create call of that run produced, also
\* when a later create call of the stage threw.  Under SeqSpec.
C7_EveryCreatedTicketDispatchedOnce ==
  \A s \in Slots :
    LET r == run[s]
    IN (r.pc = "tracker" /\ "notification" \notin Range(r.threw)) =>
         \A n \in 1..Len(store) :
           store[n].run = r.no => Count(n, r.dispatched) = 1

\* C8 -- Notifications are never retried across runs: a run that started
\* when a ticket for a message id already existed never invokes the
\* dispatcher for that message.  Under SeqSpec.
C8_NoDispatchForTicketedMessage ==
  \A s \in Slots :
    \A k \in 1..Len(run[s].dispatched) :
      \A n \in 1..run[s].base :
        store[n].correlation_id # store[run[s].dispatched[k]].correlation_id

\* C9 -- Whole-pipeline retry: a message whose create call failed in a run has
\* no link, no dispatcher call and no confirmation in that run; and a run
\* none of whose stages failed has, by the end of its notify stage, classified
\* every fetched request, attempted a create for each one that had no ticket
\* when the run started, and left a ticket for each of them.  Under SeqSpec.
C9_FailedCreateIsRetried ==
  \A s \in Slots :
    LET r == run[s]
    IN /\ \A cid \in r.create_failed :
            /\ ~ HasLink(r.ticket_links, cid)
            /\ \A k \in 1..Len(r.dispatched) :
                 store[r.dispatched[k]].correlation_id # cid
            /\ \A k \in 1..Len(r.notifications_sent) :
                 r.notifications_sent[k].message_id # cid
            /\ \A k \in 1..Len(r.newly_created_tickets) :
                 r.newly_created_tickets[k].correlation_id # cid
       /\ (r.pc = "tracker" /\ r.threw = <<>>) =>
            \A k \in 1..Len(r.messages) :
              LET message == M(r.messages[k])
                  cid == message.message_id
              IN rule_based_classification(message).is_support_request =>
                   /\ cid \in r.seen
                   /\ TicketsFor(cid) # {}
                   /\ (\A n \in TicketsFor(cid) : n > r.base) =>
                        (cid \in Range(r.creates) /\
                         \E n \in TicketsFor(cid) : store[n].run = r.no)

\* a later scheduled run created the ticket whose create call had failed before
C9_RetrySucceeded ==
  \E s \in Slots :
    LET r == run[s]
    IN /\ r.pc = "tracker" /\ r.kind = "poll" /\ r.threw = <<>> /\ r.no >= 2
       /\ \E cid \in lost :
            /\ cid \in Range(r.creates)
            /\ \E n \in TicketsFor(cid) : store[n].run = r.no
            /\ \A n \in TicketsFor(cid) : n > r.base

\* C10 -- Duplicate short-circuit: for a message that matches the fingerprint
\* rule, detect_duplicates answers duplicate with confidence 0.95 by rule 1
\* and consults neither the Ticket Store, nor the oracle, nor the lexical
\* comparison, whatever they would have answered.  Under DetectSpec.
C10_FingerprintShortCircuits ==
  (det.phase = "returned" /\
   is_obvious_duplicate(Catalogue[det.message].content)) =>
     /\ det.out.is_duplicate
     /\ det.out.confidence = 95
     /\ det.out.rule = "fingerprint"
     /\ det.out.calls = <<>>
     /\ det.out.similar_tickets = <<>>

\* the confirmation text was judged while the store held a ticket for it and
\* the oracle would have called it unique
C10_FingerprintBeatsStoreAndOracle ==
  /\ det.phase = "returned"
  /\ Catalogue[det.message].content = TxtNotification
  /\ det.env.existing # 0
  /\ det.env.llm = "unique"
  /\ det.recent_tickets.tickets # <<>>
  /\ det.out.rule = "fingerprint"

\* tokens two texts share after lower-casing, and the longer token count
C11_Common(a, b) ==
  Cardinality({w \in Range(LowerStr(a)) : w \in Range(LowerStr(b))})

C11_Longest(a, b) == IF Len(a) >= Len(b) THEN Len(a) ELSE Len(b)

\* at least 3 shared tokens and common / longest strictly above 0.30
C11_Qualifies(content, ticket) ==
  /\ ticket.description # <<>>
  /\ C11_Common(content, ticket.description) >= 3
  /\ 100 * C11_Common(content, ticket.description) >
       30 * C11_Longest(content, ticket.description)

\* C11 -- Lexical fallback threshold: the lexical check answers duplicate
\* exactly when some candidate shares at least 3 tokens with the message and
\* common / max(token counts) > 0.30, naming the first such candidate; 3 of 10
\* is not a duplicate, 4 of 10 is; when no candidate qualifies the answer is
\* unique with confidence 0.8.  Under LexSpec.
C11_LexicalThreshold ==
  det.phase = "lexical_returned" =>
    LET tickets == det.recent_tickets
        hits == {k \in 1..Len(tickets) : C11_Qualifies(det.content, tickets[k])}
    IN /\ det.out.is_duplicate <=> hits # {}
       /\ hits = {} => (det.out.confidence = 80 /\ det.out.similar_tickets = <<>>)
       /\ hits # {} =>
            \E k \in hits :
              /\ \A j \in hits : k <= j
              /\ det.out.similar_tickets = <<tickets[k].number>>
              /\ det.out.confidence =
                   (100 * C11_Common(det.content, tickets[k].description))
                     \div C11_Longest(det.content, tickets[k].description)
       /\ (det.content = LexMessage10 /\
           \A k \in 1..Len(tickets) : tickets[k].description = LexShares3Of10)
            => ~ det.out.is_duplicate
       /\ (det.content = LexMessage10 /\ tickets # <<>> /\
           tickets[1].description = LexShares4Of10)
            => (det.out.is_duplicate /\ det.out.confidence = 40)

\* 3 of 10 was passed over and 4 of 10 was named the duplicate
C11_BoundaryPassedOver ==
  /\ det.phase = "lexical_returned"
  /\ det.content = LexMessage10
  /\ Len(det.recent_tickets) = 2
  /\ det.recent_tickets[1].description = LexShares3Of10
  /\ det.recent_tickets[2].description = LexShares4Of10
  /\ det.out.is_duplicate
  /\ det.out.similar_tickets = <<2>>

\* the catalogue message that carries the WiFi scenario text
C12_Wifi == CHOOSE k \in 1..Len(Catalogue) : Catalogue[k].content = TxtWifi

\* C12 -- End-to-end scenario: 'WiFi keeps disconnecting every few minutes'
\* from a non-bot sender, with no ticket for it before the run and no call
\* failing, leaves a finished run with exactly one ticket for the message,
\* of category NETWORK, and exactly one dispatcher call.  Under SeqSpec.
C12_WifiScenarioOneNetworkTicket ==
  \A s \in Slots :
    LET r == run[s]
        cid == Catalogue[C12_Wifi].message_id
    IN (/\ r.pc = "tracker"
        /\ faults = 0
        /\ \E k \in 1..Len(r.messages) : r.messages[k][1] = C12_Wifi
        /\ \A n \in 1..r.base : store[n].correlation_id # cid)
       => /\ Cardinality(TicketsFor(cid)) = 1
          /\ \A n \in TicketsFor(cid) :
               /\ Category(store[n].category_of).category = "network"
               /\ Count(n, r.dispatched) = 1

\* what the chat platform answered to an attempted mode
C13_Outcome(mode) ==
  CASE mode = "thread" -> disp.env.thread
    [] mode = "quote"  -> disp.env.quote
    [] mode = "space"  -> disp.env.space

\* every applicable mode was attempted and none succeeded
C13_AllModesFailed ==
  LET a == disp.out.attempts
  IN /\ disp.thread_id # <<>> => "thread" \in Range(a)
     /\ disp.original_message_id # "" => "quote" \in Range(a)
     /\ "space" \in Range(a)
     /\ \A k \in 1..Len(a) : C13_Outcome(a[k]) # "ok"

\* true exactly when the last attempted mode succeeded, nothing being
\* attempted after a success; a mode that failed, by an error status or by
\* a transport exception, is followed by the next mode
C13_TrueOnFirstSuccess ==
  LET a == disp.out.attempts
  IN /\ disp.out.result <=> (a # <<>> /\ C13_Outcome(a[Len(a)]) = "ok")
     /\ \A k \in 1..(Len(a) - 1) : C13_Outcome(a[k]) # "ok"
     /\ \A k \in 1..Len(a) :
          (C13_Outcome(a[k]) # "ok" /\ a[k] # "space") => k < Len(a)

\* C13 (as stated) -- Dispatcher result: for every authentication outcome
\* and every outcome of the modes, the call returns true as soon as an
\* attempted mode succeeds, a transport error in a mode never prevents the
\* next mode, and it returns false only if threaded reply, quoted reply and
\* broadcast all failed.  Under DispatchSpec.
C13_FalseOnlyIfAllModesFailed ==
  disp.phase = "returned" =>
    /\ C13_TrueOnFirstSuccess
    /\ ~ disp.out.result => C13_AllModesFailed

\* C13 (amended) -- as above, but false is returned in two cases: the
\* authentication failed, and then no mode was attempted at all, or every
\* applicable mode was attempted and failed.  Under DispatchSpec.
C13_FalseOnlyIfNoAuthOrAllModesFailed ==
  disp.phase = "returned" =>
    /\ C13_TrueOnFirstSuccess
    /\ ~ disp.env.auth => (~ disp.out.result /\ disp.out.attempts = <<>>)
    /\ (disp.env.auth /\ ~ disp.out.result) => C13_AllModesFailed
    /\ disp.env.auth => disp.out.attempts # <<>>

\* a transport exception in the threaded reply and an error status in the
\* quoted reply were followed by a successful broadcast
C13_BroadcastAfterTransportError ==
  /\ disp.phase = "returned"
  /\ disp.env.auth
  /\ disp.thread_id # <<>> /\ disp.env.thread = "exception"
  /\ disp.original_message_id # "" /\ disp.env.quote = "http_error"
  /\ disp.env.space = "ok"
  /\ disp.out.result

\* the catalogue messages that do not address the system
C14_Unaddressed == {k \in 1..Len(Catalogue) : ~ bot_mentioned(Catalogue[k].content)}

C15_SuppliedMessagesReachClassify ==
  \A s \in Slots :
    run[s].pc = "classifier" =>
      \A j \in 1..Len(run[s].supplied) :
        LET ref == run[s].supplied[j]
        IN (~ PreFilterDrops(M(ref)) /\ Classified(ref).is_support_request) =>
             \E i \in 1..Len(run[s].messages) :
               M(run[s].messages[i]).message_id = M(ref).message_id

\* after the shutdown signal no run is started
C16_NoRunAfterSignal == disp.signalled => started = disp.at_signal

\* stop() has not returned while the scheduled run is between two stages
C16_StopWaitsForRun == disp.stopped => SlotFree("poll")

\* the process has not ended while the scheduled run is between two stages
C16_RunNotCutOff == disp.exited => SlotFree("poll")

\* C16 -- Cooperative cancellation: after the shutdown signal the scheduler
\* starts no new pipeline run; stop() does not return, and the process does
\* not end, while the scheduled run is between two stages: the run in
\* flight reaches its terminal state first.  Under ServiceSpec.
C16_CooperativeCancellation ==
  /\ C16_NoRunAfterSignal
  /\ C16_StopWaitsForRun
  /\ C16_RunNotCutOff

\* the message id for which run r is about to call create_incident
C17_CreateFor(r) == M(r.classified_messages[r.i]).message_id

\* C17 (as stated) -- Sequential idempotency: with non-overlapping runs and
\* truthful findByCorrelation answers, at most one create call is issued
\* for a message id in total: no create call is issued for an id for which
\* a create call, successful or failed, was issued before.  Under
\* TruthfulSeqSpec.
C17_AtMostOneCreateCall ==
  [][\A s \in Slots :
       (run[s].pc = "create_incident" /\ run'[s].pc # "create_incident") =>
         /\ TicketsFor(C17_CreateFor(run[s])) = {}
         /\ C17_CreateFor(run[s]) \notin lost]_vars

\* C17 (amended) -- with non-overlapping runs and truthful findByCorrelation
\* answers, at most one create call succeeds for a message id, so the store
\* never holds two tickets for it, and a run that is not the one that
\* created the ticket has issued no create call for that id: it found the
\* ticket and skipped creation.  Under TruthfulSeqSpec.
C17_AtMostOneTicketSequentially ==
  \A cid \in MessageIds :
    /\ Cardinality(TicketsFor(cid)) <= 1
    /\ \A n \in TicketsFor(cid) : \A s \in Slots :
         (run[s].no # 0 /\ run[s].no # store[n].run) =>
           cid \notin Range(run[s].creates)

\* the second run classified a message that the first run had ticketed,
\* found the ticket, linked it and went on to the notify stage without a
\* create call
C17_LaterRunSkippedCreation ==
  \E s \in Slots : \E n \in 1..Len(store) :
    /\ run[s].no = 2 /\ store[n].run = 1
    /\ run[s].pc = "notification"
    /\ \E j \in 1..Len(run[s].classified_messages) :
         M(run[s].classified_messages[j]).message_id = store[n].correlation_id
    /\ HasLink(run[s].ticket_links, store[n].correlation_id)
    /\ run[s].creates = <<>>

\* C18 (as stated) -- every create call a run issues for correlation id c
\* directly follows, among the store calls of that run, a
\* findByCorrelation(c) call of that run that returned no ticket.  Under
\* Spec.
C18_LookupImmediatelyBeforeCreate ==
  \A s \in Slots :
    LET calls == run[s].store_calls
    IN \A k \in 1..Len(calls) :
         calls[k][1] = "create_incident" =>
           k > 1 /\ calls[k - 1] = FindCall(calls[k][2], 0)

\* C18 (amended) -- every create call a run issues for correlation id c is
\* preceded, in that run, by a findByCorrelation(c) call that returned no
\* ticket, and the only store calls of the run between the two are the
\* directory lookups for the requester and the assignment group of that
\* same ticket: no create and no other findByCorrelation.  Under Spec.
C18_LookupBeforeCreate ==
  \A s \in Slots :
    LET calls == run[s].store_calls
    IN \A k \in 1..Len(calls) :
         calls[k][1] = "create_incident" =>
           \E j \in 1..(k - 1) :
             /\ calls[j] = FindCall(calls[k][2], 0)
             /\ \A m \in (j + 1)..(k - 1) : calls[m] = DirectoryCall(calls[k][2])

\* a run that found no ticket for either of its two requests and issued
\* two create calls, each after its own lookup
C18_TwoCreatesEachAfterItsLookup ==
  \E s \in Slots :
    /\ Len(run[s].store_calls) = 6
    /\ run[s].store_calls[3][1] = "create_incident"
    /\ run[s].store_calls[6][1] = "create_incident"
    /\ run[s].store_calls[3][2] # run[s].store_calls[6][2]

\* the message ids of the requests run r brought to the create-ticket stage
C19_Requests(r) ==
  {M(r.classified_messages[j]).message_id : j \in 1..Len(r.classified_messages)}

\* C19 -- the correlation-link cache outlives a run: when a run enters the
\* create-ticket stage with a request whose ticket an earlier run created
\* (and linked), the link is in the cache the run consults, and the run
\* sends no findByCorrelation call for that id.  Under SeqSpec.
C19_LinkCacheOutlivesRun ==
  \A s \in Slots : \A n \in 1..Len(store) :
    (/\ run[s].pc \in {"servicenow", "create_incident", "notification"}
     /\ store[n].run < run[s].no
     /\ store[n].correlation_id \in C19_Requests(run[s])) =>
      /\ HasLink(run[s].ticket_links, store[n].correlation_id)
      /\ \A k \in 1..Len(run[s].store_calls) :
           ~ (/\ run[s].store_calls[k][1] = "find_incident_by_correlation"
              /\ run[s].store_calls[k][2] = store[n].correlation_id)

\* C20 -- stage order of the data flow: in every run the messages that the
\* classify stage handles have passed the Pre-Filter (inside the fetch
\* stage) and then the Duplicate Detector: the run executed a duplicate
\* detection stage after the fetch stage and before the classify stage.
\* Under SeqSpec.
C20_DuplicateDetectorBeforeClassify ==
  \A s \in Slots :
    LET v == run[s].visited
    IN \A k \in 1..Len(v) :
         (v[k] = "classifier" /\ run[s].messages # <<>>) =>
           /\ \A j \in 1..Len(run[s].messages) : ~ PreFilterDrops(M(run[s].messages[j]))
           /\ \E d \in 1..(k - 1) :
                /\ v[d] = "duplicate_detection"
                /\ \E f \in 1..(d - 1) : v[f] = "message_fetcher"

\* C21 -- Exact correlation match: for a message that does not match the
\* fingerprint rule and for which the store's correlation query returns a
\* ticket, detect_duplicates answers duplicate with confidence 1.0 and that
\* ticket in similar_tickets, and consults neither the oracle nor the
\* lexical comparison, whatever they would have answered.  Under DetectSpec.
C21_CorrelationMatchWins ==
  (/\ det.phase = "returned"
   /\ ~ is_obvious_duplicate(Catalogue[det.message].content)
   /\ det.env.existing # 0) =>
     /\ det.out.is_duplicate
     /\ det.out.confidence = 100
     /\ det.out.rule = "correlation"
     /\ det.out.similar_tickets = <<det.env.existing>>
     /\ "oracle" \notin Range(det.out.calls)
     /\ "lexical" \notin Range(det.out.calls)
     /\ det.out.calls[Len(det.out.calls)] = "correlation_query"

\* a request with a ticket in the store was judged while the oracle would
\* have called it unique and a recent ticket repeats its words
C21_CorrelationBeatsOracleAndLexical ==
  /\ det.phase = "returned"
  /\ Catalogue[det.message].content = TxtRequest
  /\ det.env.existing # 0
  /\ det.env.llm = "unique"
  /\ det.recent_tickets.tickets = <<RecentTicket(1, TxtRequest)>>
  /\ det.out.rule = "correlation"

\* the recent tickets a detect_duplicates call compares against
C22_Recent ==
  IF det.recent_tickets.none THEN det.env.recent ELSE det.recent_tickets.tickets

\* C22 -- Semantic-match parse failure: when the oracle's answer to the
\* semantic question cannot be parsed, detect_duplicates runs the lexical
\* comparison and returns its verdict, so a message that lexically matches
\* a recent ticket is reported duplicate.  Under DetectSpec.
C22_ParseFailureFallsToLexical ==
  (/\ det.phase = "returned"
   /\ ~ is_obvious_duplicate(Catalogue[det.message].content)
   /\ det.env.existing = 0
   /\ det.env.llm = "unparsable"
   /\ C22_Recent # <<>>) =>
     LET lexical == rule_based_duplicate_detection(
                      M(<<det.message, "poll">>).content, C22_Recent)
     IN /\ "lexical" \in Range(det.out.calls)
        /\ det.out.is_duplicate = lexical.is_duplicate
        /\ det.out.confidence = lexical.confidence
        /\ det.out.similar_tickets = lexical.similar_tickets

\* the text and the recent tickets of the call under FailOpenSpec
C23_Content == M(<<det.message, "poll">>).content
C23_Recent ==
  IF det.recent_tickets.none THEN det.env.recent ELSE det.recent_tickets.tickets

\* the step named by det.fault was executed in this call, and failed
C23_CorrelationFailed ==
  det.fault = "correlation" /\ ~ is_obvious_duplicate(C23_Content)
C23_SemanticFailed ==
  /\ det.fault = "semantic" /\ ~ is_obvious_duplicate(C23_Content)
  /\ det.env.existing = 0 /\ det.env.llm # "absent" /\ C23_Recent # <<>>
C23_LexicalFailed ==
  det.fault = "lexical" /\ Reached("lexical", det.out.calls)

C23_NotDuplicateZero ==
  /\ ~ det.out.is_duplicate
  /\ det.out.confidence = 0
  /\ det.out.rule = "failed"

\* the stage failed as a whole and handed on the message list it was given
C23_StageKeepsMessages ==
  (det.phase = "stage_returned" /\ det.stage_fails) =>
    /\ det.state.messages = <<<<det.message, "poll">>>>
    /\ det.state.errors # <<>>

\* C23 (as stated) -- Detector fail-open: on an unexpected failure in the
\* correlation, the semantic or the lexical step (or anywhere else in the
\* call) detect_duplicates raises nothing and answers not-duplicate with
\* confidence 0.0 and the failure as its reason; a duplicate-detection
\* stage that fails as a whole keeps the message list.  Under FailOpenSpec.
C23_FailOpenInEveryStep ==
  /\ det.phase = "returned" =>
       /\ ~ det.out.raised
       /\ (\/ det.fault = "unexpected" \/ C23_CorrelationFailed
           \/ C23_SemanticFailed \/ C23_LexicalFailed) => C23_NotDuplicateZero
  /\ C23_StageKeepsMessages

\* C23 (amended) -- detect_duplicates never raises.  A failure of the
\* lexical step, or of the call outside its three steps, gives
\* not-duplicate with confidence 0.0 and the failure as reason.  A failed
\* correlation query counts as "no ticket" and the detection goes on with
\* the semantic or the lexical step; a failed oracle call is replaced by
\* the lexical comparison, whose verdict (duplicate included) is returned.
\* A stage that fails as a whole keeps the message list.  Under
\* FailOpenSpec.
C23_FailOpen ==
  /\ det.phase = "returned" =>
       /\ ~ det.out.raised
       /\ (det.fault = "unexpected" \/ C23_LexicalFailed) => C23_NotDuplicateZero
       /\ C23_CorrelationFailed =>
            det.out.rule \in {"semantic", "parse_error", "lexical"}
       /\ C23_SemanticFailed =>
            LET lexical == rule_based_duplicate_detection(C23_Content, C23_Recent)
            IN /\ det.out.rule = "lexical"
               /\ det.out.is_duplicate = lexical.is_duplicate
               /\ det.out.confidence = lexical.confidence
  /\ C23_StageKeepsMessages

\* the oracle call raised for a request that repeats a recent ticket, and
\* the call answered duplicate by the lexical comparison
C23_OracleFailedLexicalDuplicate ==
  /\ det.phase = "returned"
  /\ C23_SemanticFailed
  /\ det.env.llm = "unique"
  /\ det.out.is_duplicate
  /\ det.out.rule = "lexical"

\* an Oracle answer the agent cannot turn into its result: no JSON, no
\* object, a key missing, or (categorize) a category or priority value that
\* names no member of the enumeration
C24_MalformedCategory ==
  \/ det.answer.kind \in {"not_json", "not_object", "missing_key"}
  \/ CategoryMember(det.answer.category) = ""
  \/ PriorityMember(det.answer.priority) = ""

C24_MalformedClassification ==
  det.answer.kind \in {"not_json", "not_object", "missing_key"}

\* C24 -- Parse-error fallback: for a malformed Oracle answer the agent does
\* not abort and returns the default, the same for every malformed answer:
\* category OTHER, priority MODERATE, urgency 3 from categorize_ticket, and
\* "is a support request" from classify_message.  Under AgentSpec.
C24_ParseErrorFallback ==
  /\ (det.phase = "categorized" /\ C24_MalformedCategory) =>
       /\ ~ det.out.aborted
       /\ det.out.category = "OTHER"
       /\ det.out.priority = "MODERATE"
       /\ det.out.urgency = "3"
       /\ det.out = DefaultCategory
  /\ (det.phase = "classified" /\ C24_MalformedClassification) =>
       /\ ~ det.out.aborted
       /\ det.out.is_support_request

\* a JSON object whose category names no member of the enumeration, with a
\* valid priority 1, was answered by the default
C24_UnknownCategoryDefaulted ==
  /\ det.phase = "categorized"
  /\ det.answer.kind = "object"
  /\ det.answer.category = "misc"
  /\ det.answer.priority = "1"
  /\ det.out.priority = "MODERATE"

\* where a directory query stands in the calls of the request, 0 if absent
C25_Position(call) ==
  IF \E k \in 1..Len(det.calls) : det.calls[k] = call
  THEN CHOOSE k \in 1..Len(det.calls) : det.calls[k] = call
  ELSE 0

\* neither lookup that was made found the requester
C25_RequesterUnknown ==
  /\ det.has_email => det.env.by_email = "none"
  /\ det.has_name => det.env.by_name = "none"

\* C25 -- Best-effort directory lookup: when the requester is found neither
\* by email nor by display name, or the assignment group is not found, the
\* stage records no error, leaves the corresponding fields out and still
\* issues the create call with the correlation id; the email lookup comes
\* before the name lookup, and the name is looked up only when the email
\* lookup found nothing (or there is no email).  Under DirectorySpec.
C25_BestEffortDirectoryLookup ==
  det.phase = "created" =>
    /\ det.errors = <<>>
    /\ det.calls[Len(det.calls)] = "create_incident"
    /\ det.payload.correlation_id = Catalogue[det.message].message_id
    /\ C25_RequesterUnknown => det.payload.caller_id = ""
    /\ (det.has_group /\ det.env.group = "none") =>
         (det.payload.assignment_group = "" /\ det.fields.assigned_to = "")
    /\ C25_Position("find_user_by_name") # 0 =>
         /\ C25_Position("find_user_by_email") < C25_Position("find_user_by_name")
         /\ det.has_email => det.env.by_email = "none"
    /\ (det.has_email /\ det.env.by_email = "found") =>
         det.payload.caller_id = "user_by_email"

\* a request whose requester matched neither by email nor by name and whose
\* group is unknown went to create_incident after all three queries
C25_NothingFoundStillCreated ==
  /\ det.phase = "created"
  /\ det.has_email /\ det.has_name /\ det.has_group
  /\ det.env.by_email = "none" /\ det.env.by_name = "none"
  /\ det.env.group = "none"
  /\ Len(det.calls) = 4
  /\ det.payload.caller_id = ""
  /\ det.payload.correlation_id = "m1"

\* the message matches the sender rule or a fingerprint pattern
C26_Rejected(ref) ==
  is_bot_message(M(ref)) \/ is_admin_notification(M(ref).content)

\* kept is the sub-sequence of fetched, in order, of what is not rejected
C26_KeptOf(fetched, kept) ==
  LET passing == {j \in 1..Len(fetched) : ~ C26_Rejected(fetched[j])}
  IN /\ Len(kept) = Cardinality(passing)
     /\ \A j \in passing : \E i \in 1..Len(kept) : kept[i] = fetched[j]
     /\ \A i \in 1..Len(kept) : \E j \in passing : kept[i] = fetched[j]
     /\ \A i1, i2 \in 1..Len(kept) :
          i1 < i2 => \E j1, j2 \in passing :
                       j1 < j2 /\ kept[i1] = fetched[j1] /\ kept[i2] = fetched[j2]

\* the fields of the run state other than the message list
C26_RestOfState(r) ==
  <<r.classified_messages, r.summarized_tickets, r.categorized_tickets,
    r.servicenow_tickets, r.newly_created_tickets, r.notifications_sent,
    r.errors, r.processed_messages, r.ticket_links>>

C27_NoErrorFatalToScheduler ==
  (disp.raised > 0 /\ disp.running /\ ~ disp.exited) =>
    /\ disp.loop \in {"while", "run_pending", "job"}
    /\ (disp.loop = "run_pending" /\ started < MaxRuns) => ENABLED run_pending_due

\* the first scheduled run raised and the second one is under way, with the
\* scheduler still running
C27_RunStartedAfterRaise ==
  /\ disp.raised = 1 /\ disp.running /\ ~ disp.signalled
  /\ disp.loop = "job"
  /\ run["poll"].no = 2 /\ run["poll"].kind = "poll"
  /\ run["poll"].pc = "classifier"

\* C28 -- A failed correlation lookup never leads to a creation: a run issues
\* no create call for a message id for which the store held a ticket when
\* the run began (a ticket the run's lookup can only miss by failing), so
\* the store never receives a second ticket because of a lookup outage.
C28_FailedLookupNeverCreates ==
  \A s \in Slots :
    LET calls == run[s].store_calls
    IN \A k \in 1..Len(calls) :
         calls[k][1] = "create_incident" =>
           \A n \in TicketsFor(calls[k][2]) : n > run[s].base

\* the loop threads that have not returned
C29_ActiveThreads == {t \in 1..Len(disp.threads) : disp.threads[t] # "returned"}

\* C29 -- After any sequence of start() and stop() calls, at most one
\* scheduler loop thread is active and at most one periodic pipeline job is
\* registered.  Under LifecycleSpec; each of the two parts is violated on
\* its own.
C29_AtMostOneLoopThread == Cardinality(C29_ActiveThreads) <= 1

C29_AtMostOneJob == disp.jobs <= 1

C29_OneLoopOneJob == C29_AtMostOneLoopThread /\ C29_AtMostOneJob

\* C30 -- Every text the system itself posts to the chat (the acknowledgement
\* of the webhook handler, the confirmation of the notify stage) is rejected
\* on its text alone when it is fetched again: it matches a fingerprint
\* pattern or is classified as not a request, whoever its sender is, and so
\* never produces a ticket.  Under EchoSpec.
C30_OwnPostsRejectedOnText ==
  det.phase # "posted" =>
    /\ \/ is_admin_notification(det.text)
       \/ ~ rule_based_classification(EchoMessage(det)).is_support_request
    /\ det.phase \notin {"request", "ticketed"}

\* how many entries of q carry message id cid in field f
C31_Entries(q, cid) ==
  Cardinality({k \in 1..Len(q) : q[k] = cid})

\* C31 -- Within a single run, a message id that occurs more than once in
\* the fetched list (with the same or with a different thread reference)
\* leads to at most one create call and at most one notification for that
\* id.  Under RecurSpec.
C31_OncePerIdInRun ==
  \A cid \in MessageIds :
    LET r == run["poll"]
    IN /\ Count(CreateCall(cid), r.store_calls) <= 1
       /\ C31_Entries([k \in 1..Len(r.newly_created_tickets) |->
                         r.newly_created_tickets[k].correlation_id], cid) <= 1
       /\ C31_Entries([k \in 1..Len(r.notifications_sent) |->
                         r.notifications_sent[k].message_id], cid) <= 1

\* m1 was fetched with both of its thread references and classified twice;
\* the run issued one create call for it and sent one confirmation
C31_TwoThreadsOneTicket ==
  LET r == run["poll"]
  IN /\ r.pc = "tracker"
     /\ r.messages = << <<1, "poll">>, <<1, "webhook">> >>
     /\ Len(r.classified_messages) = 2
     /\ Count(CreateCall("m1"), r.store_calls) = 1
     /\ Len(r.notifications_sent) = 1
     /\ Cardinality(TicketsFor("m1")) = 1

\* the three lists of run state r name the same messages in the same order
C32_Aligned(r) ==
  /\ Len(r.summarized_tickets) = Len(r.classified_messages)
  /\ Len(r.categorized_tickets) = Len(r.classified_messages)
  /\ \A k \in 1..Len(r.classified_messages) :
       /\ r.summarized_tickets[k] = r.classified_messages[k]
       /\ r.categorized_tickets[k] =
            <<r.classified_messages[k], r.classified_messages[k]>>

\* C32 -- Positional alignment: every ticket in the store was created from
\* the summary and the category derived from the message whose id is its
\* correlation id; when a run is about to issue a create call, its
\* classified, summarized and categorized lists have equal length and the
\* same message order; and a run whose summarize or categorize stage failed
\* issues no create call.
C32_PositionalAlignment ==
  /\ \A n \in 1..Len(store) :
       /\ M(store[n].summary_of).message_id = store[n].correlation_id
       /\ M(store[n].category_of[1]).message_id = store[n].correlation_id
       /\ M(store[n].category_of[2]).message_id = store[n].correlation_id
  /\ \A s \in Slots :
       /\ run[s].pc = "create_incident" => C32_Aligned(run[s])
       /\ (\E k \in 1..Len(run[s].threw) :
             run[s].threw[k] \in {"summary", "category_extractor"})
          => \A j \in 1..Len(run[s].store_calls) :
               run[s].store_calls[j][1] # "create_incident"

\* a run is about to create the ticket of its second request, after the
\* ticket of the first one
C32_SecondOfTwoRequests ==
  \E s \in Slots :
    /\ run[s].pc = "create_incident"
    /\ run[s].i = 2
    /\ Len(run[s].classified_messages) = 2
    /\ Len(store) = 1
    /\ store[1].correlation_id = M(run[s].classified_messages[1]).message_id
    /\ M(run[s].classified_messages[2]).message_id # store[1].correlation_id

\* the message ids of the requests run state r has classified
C33_ClassifiedIds(r) ==
  {M(r.classified_messages[k]).message_id : k \in 1..Len(r.classified_messages)}

\* C33 -- Run counts are consistent at the terminal state of every run:
\* every entry of notifications_sent refers to a ticket in
\* newly_created_tickets, every newly created ticket is in
\* servicenow_tickets, every ticket in servicenow_tickets has the correlation
\* id of a message in classified_messages, and |notifications_sent| <=
\* |newly_created_tickets| <= |servicenow_tickets| <= |classified_messages|.
C33_RunCountsConsistent ==
  \A s \in Slots :
    LET r == run[s]
    IN r.pc = "tracker" =>
         /\ \A k \in 1..Len(r.notifications_sent) :
              \E j \in 1..Len(r.newly_created_tickets) :
                /\ r.newly_created_tickets[j].ticket =
                     r.notifications_sent[k].ticket_number
                /\ r.newly_created_tickets[j].correlation_id =
                     r.notifications_sent[k].message_id
         /\ \A j \in 1..Len(r.newly_created_tickets) :
              \E n \in 1..Len(r.servicenow_tickets) :
                r.servicenow_tickets[n] = r.newly_created_tickets[j].ticket
         /\ \A n \in 1..Len(r.servicenow_tickets) :
              /\ r.servicenow_tickets[n] \in 1..Len(store)
              /\ store[r.servicenow_tickets[n]].correlation_id
                   \in C33_ClassifiedIds(r)
         /\ Len(r.notifications_sent) <= Len(r.newly_created_tickets)
         /\ Len(r.newly_created_tickets) <= Len(r.servicenow_tickets)
         /\ Len(r.servicenow_tickets) <= Len(r.classified_messages)

\* a finished run with two requests: one ticket was found, one was created,
\* and the confirmation of the created one could not be delivered
C33_StrictlyFewerAtEachStep ==
  \E s \in Slots :
    /\ run[s].pc = "tracker"
    /\ Len(run[s].classified_messages) = 2
    /\ Len(run[s].servicenow_tickets) = 2
    /\ Len(run[s].newly_created_tickets) = 1
    /\ Len(run[s].notifications_sent) = 0

\* the attempts of the returned call that posted the message
C34_Delivered ==
  {k \in 1..Len(disp.out.attempts) :
     CASE disp.out.attempts[k] = "thread" -> disp.env.thread = "ok"
       [] disp.out.attempts[k] = "quote"  -> disp.env.quote = "ok"
       [] disp.out.attempts[k] = "space"  -> disp.env.space = "ok"}

\* C34 -- Each dispatcher invocation delivers the confirmation at most once:
\* whatever the three modes answer, a send_message_with_fallback call makes
\* at most three delivery attempts, no mode twice, at most one of them
\* succeeds, the successful one is the last, and the call returns True
\* exactly when one succeeded.  Under DispatchSpec.
C34_DeliveredAtMostOnce ==
  disp.phase = "returned" =>
    LET a == disp.out.attempts
    IN /\ Len(a) <= 3
       /\ \A j, k \in 1..Len(a) : a[j] = a[k] => j = k
       /\ Cardinality(C34_Delivered) <= 1
       /\ \A k \in C34_Delivered : k = Len(a)
       /\ disp.out.result <=> C34_Delivered # {}

\* the threaded reply was answered with an HTTP error, the quoted reply
\* succeeded, and the plain space message, which would have succeeded too,
\* was not sent
C34_StoppedAtFirstSuccess ==
  /\ disp.phase = "returned"
  /\ disp.env.auth
  /\ disp.env.thread = "http_error" /\ disp.env.quote = "ok" /\ disp.env.space = "ok"
  /\ disp.out.attempts = <<"thread", "quote">>
  /\ disp.out.result

\* C35 -- Webhook short-circuit for known messages: a webhook event for a
\* bot-mentioning message whose id already has a ticket in the store is
\* answered 'ticket_exists', with no acknowledgement and no pipeline run: a
\* run started by the webhook handler is a run for a message id that had no
\* ticket in the store when the handler started it.
C35_KnownMessageShortCircuited ==
  LET r == run["webhook"]
  IN r.kind = "webhook" =>
       \A n \in TicketsFor(M(r.supplied[1]).message_id) : n > r.base

\* ---- C36
\* the positions of the input list whose message has no entry in ticket_links
C36_Unlinked ==
  SelectSeq(det.messages,
            LAMBDA ref : ~ HasLink(det.ticket_links, M(ref).message_id))

C36_In(ref, q) == \E k \in 1..Len(q) : q[k] = ref

\* the stage ran to its end: it appended no error
C36_Completed ==
  det.phase \in {"detected", "classified"} /\ det.state.errors = <<>>

\* what the classify stage of the run classifies of a list, after the stage
C36_ClassifiedOf(msgs) ==
  ClassifyLoop(msgs, det.ticket_links,
               [classified |-> <<>>,
                processed |-> det.state.processed_messages,
                seen |-> {}]).classified

\* the message list is the unique list; every duplicate is marked processed
\* and the classify stage passes it over, handed to it or not
C36_ListAndMarks ==
  /\ det.state.messages = det.state.unique_messages
  /\ \A ref \in PartitionRefs :
       C36_In(ref, det.state.duplicate_messages) =>
         /\ MessageKey(M(ref)) \in det.state.processed_messages
         /\ C36_ClassifiedOf(<<ref>>) = <<>>
         /\ det.phase = "classified" => ~ C36_In(ref, det.classified)

====
